---- MODULE Spec2Model ----
(***************************************************************************)
(* A model of the tabular-learning core of ML_DATA_ANALYZER:               *)
(*   analyzeData, detectProblemType, getClassBalance, prepareFeatures      *)
(*   (the data processor) and trainModel with its in-core models.          *)
(*                                                                         *)
(* JavaScript values are tagged records, so that the coercions the code    *)
(* relies on (Number(v), isNaN, typeof, String(v), charCodeAt) are         *)
(* computed and not assumed.  Fractions (0.8, 0.1, means) are kept exact   *)
(* as integer cross-multiplications.                                       *)
(***************************************************************************)
EXTENDS Integers, Sequences, FiniteSets, TLC

VARIABLES
    data,          \* the dataset handed to the data processor: a sequence of rows
    call,          \* which function has been applied in this state ("none" before)
    target,        \* the targetColumn argument of the call ("" when it has none)
    analysis,      \* <<>> or <<the DataAnalysis record analyzeData returned>>
    problemType,   \* "" or the token detectProblemType returned
    classBalance,  \* <<>> or <<the list of (key, count) entries getClassBalance returned>>
    prepared,      \* <<>> or <<[features, targets] prepareFeatures returned>>
    thrown,        \* "" or the message of the Error the call threw
    tm,            \* the trainModel invocation: its arguments, locals and position
    app,           \* the App component: its remaining state hooks, its pending
                   \* timer and the position of the handler that is running
    earlier,       \* the trainModel invocations that have completed before tm
    unit           \* a model function applied on its own: arguments and output

vars == <<data, call, target, analysis, problemType, classBalance, prepared, thrown, tm,
         app, earlier, unit>>

\* The App component as constructed (App.tsx, the useState initial values); no
\* timer is pending and no handler is running.  failures counts the training
\* invocations that have failed since the dataset was uploaded.  timerId tells
\* one setTimeout of the auto-advance effect from the next; parsed is <<>> or
\* <<the outcome parseFile settled with>>; customTarget and showCustomInput are
\* the state hooks of the DataAnalysisPanel the app renders on the analyze step.
NoApp ==
    [currentStep |-> "upload", results |-> <<>>, error |-> "", isLoading |-> FALSE,
     showPredictionsTable |-> FALSE, timer |-> FALSE, pc |-> "idle", modelType |-> "",
     failures |-> 0, timerId |-> 0, parsed |-> <<>>, customTarget |-> "",
     showCustomInput |-> FALSE]

\* No function is applied on its own
NoUnit ==
    [fn |-> "none", X |-> <<>>, y |-> <<>>, actual |-> <<>>, predicted |-> <<>>,
     arg |-> "", out |-> <<>>]

----------------------------------------------------------------------------
(* JavaScript values and coercions *)

Null == [k |-> "null", n |-> 0, s |-> ""]

Undefined == [k |-> "undefined", n |-> 0, s |-> ""]

NaN == [k |-> "NaN", n |-> 0, s |-> ""]

Num(i) == [k |-> "number", n |-> i, s |-> ""]

Str(t) == [k |-> "string", n |-> 0, s |-> t]

\* typeof v === 'number' (NaN is of type number)
TypeofNumber(v) == v.k \in {"number", "NaN"}

IsNaN(v) == v.k = "NaN"

\* The strings of the model that Number() parses, with their values.  Number('')
\* and Number(' ') are 0; every other string of the model parses to NaN.
NumericStrings == ("" :> 0) @@ (" " :> 0) @@ ("1" :> 1) @@ ("7" :> 7)

\* Number(v)
ToNumber(v) ==
    CASE v.k = "number" -> v
      [] v.k = "NaN" -> NaN
      [] v.k = "null" -> Num(0)
      [] v.k = "undefined" -> NaN
      [] v.k = "string" ->
            IF v.s \in DOMAIN NumericStrings THEN Num(NumericStrings[v.s]) ELSE NaN

\* s.charCodeAt(0) for the non-empty strings of the model ("x1", "x2", ... start
\* with 'x')
CharCodeAt0(s) ==
    CASE s = "a" -> 97
      [] s = "b" -> 98
      [] s = "1" -> 49
      [] s = "7" -> 55
      [] s = " " -> 32
      [] OTHER -> 120

\* String(v)
ToString10(v) ==
    CASE v.k = "number" -> ToString(v.n)
      [] v.k = "NaN" -> "NaN"
      [] v.k = "null" -> "null"
      [] v.k = "undefined" -> "undefined"
      [] v.k = "string" -> v.s

----------------------------------------------------------------------------
(* Sequences *)

RECURSIVE SumSeq(_)
SumSeq(s) == IF s = <<>> THEN 0 ELSE Head(s) + SumSeq(Tail(s))

\* values.sort((a, b) => a - b): ascending; the i-th element is the value with
\* fewer than i elements below it and at least i elements at most it
SortAsc(s) ==
    [i \in 1..Len(s) |->
        CHOOSE v \in {s[j] : j \in 1..Len(s)} :
            /\ Cardinality({j \in 1..Len(s) : s[j] < v}) < i
            /\ Cardinality({j \in 1..Len(s) : s[j] <= v}) >= i]

SeqMin(s) == CHOOSE x \in {s[i] : i \in 1..Len(s)} : \A j \in 1..Len(s) : x <= s[j]

SeqMax(s) == CHOOSE x \in {s[i] : i \in 1..Len(s)} : \A j \in 1..Len(s) : x >= s[j]

\* array.slice(begin, end) with 0 <= begin, end (0-based, end exclusive)
Slice(s, begin, end) ==
    LET e == IF end > Len(s) THEN Len(s) ELSE end
    IN  IF begin >= e THEN <<>> ELSE SubSeq(s, begin + 1, e)

----------------------------------------------------------------------------
(* The data processor *)

\* Object.keys(data[0]): every row of the model carries these two columns
ColumnNames == <<"f", "t">>

\* row[col]: undefined for a key the row does not have
Cell(row, col) == IF col \in DOMAIN row THEN row[col] ELSE Undefined

ColumnValues(d, col) == [i \in 1..Len(d) |-> Cell(d[i], col)]

\* analyzeData's filter of missing values
NonNullValues(values) ==
    SelectSeq(values, LAMBDA val : val # Null /\ val # Undefined /\ val # Str(""))

NumericalValues(values) ==
    SelectSeq(values, LAMBDA val : TypeofNumber(val) \/ ~IsNaN(ToNumber(val)))

\* IsNumerical with the threshold included
IsNumericalAtLeast(d, col) ==
    LET nonNullValues == NonNullValues(ColumnValues(d, col))
    IN  Len(NumericalValues(nonNullValues)) * 5 >= Len(nonNullValues) * 4

\* numericalValues.length > nonNullValues.length * 0.8
IsNumerical(d, col) ==
    LET nonNullValues == NonNullValues(ColumnValues(d, col))
    IN  Len(NumericalValues(nonNullValues)) * 5 > Len(nonNullValues) * 4

\* MissingCount with the empty string taken for a value
MissingCountKeepingEmpty(d, col) ==
    Len(d) - Len(SelectSeq(ColumnValues(d, col), LAMBDA val : val # Null /\ val # Undefined))

MissingCount(d, col) == Len(d) - Len(NonNullValues(ColumnValues(d, col)))

\* data.map(row => Number(row[col])).filter(val => !isNaN(val))
StatValues(d, col) ==
    LET numbers == [i \in 1..Len(d) |-> ToNumber(d[i][col])]
        kept == SelectSeq(numbers, LAMBDA val : ~IsNaN(val))
    IN  [i \in 1..Len(kept) |-> kept[i].n]

\* statistics[col]?.mean, read while statistics[col] is being built
OptionalMean(statistics, col) ==
    IF col \in DOMAIN statistics THEN <<statistics[col].mean>> ELSE <<>>

\* Math.pow(val - statistics[col]?.mean || 0, 2) as a fraction: val - undefined is
\* NaN and NaN || 0 is 0; against a mean S/n the term is (n*val - S)^2 / n^2
StdTerm(val, optMean) ==
    IF optMean = <<>> THEN [num |-> 0, den |-> 1]
    ELSE LET m == optMean[1]
             diff == m.den * val - m.num
         IN  [num |-> diff * diff, den |-> m.den * m.den]

\* Median taking the lower middle element of an even count
MedianLowerMiddle(sorted) == sorted[((Len(sorted) - 1) \div 2) + 1]

\* sorted[Math.floor(sorted.length / 2)]
Median(sorted) == sorted[(Len(sorted) \div 2) + 1]

\* The statistics record of one numerical column.  mean is the fraction num/den;
\* std is represented by its square, the fraction stdSq.num / stdSq.den.
ColumnStatistics(values, statistics, col) ==
    LET sorted == SortAsc(values)
        optMean == OptionalMean(statistics, col)
        terms == [i \in 1..Len(sorted) |-> StdTerm(sorted[i], optMean)]
        den == IF Len(terms) = 0 THEN 1 ELSE terms[1].den
    IN  [mean |-> [num |-> SumSeq(sorted), den |-> Len(sorted)],
         median |-> Median(sorted),
         min |-> SeqMin(sorted),
         max |-> SeqMax(sorted),
         stdSq |-> [num |-> SumSeq([i \in 1..Len(terms) |-> terms[i].num]),
                    den |-> den * Len(sorted)]]

RECURSIVE StatisticsLoop(_, _, _)
StatisticsLoop(d, cols, statistics) ==
    IF cols = <<>> THEN statistics
    ELSE LET col == Head(cols)
             values == StatValues(d, col)
         IN  StatisticsLoop(d, Tail(cols),
                 IF Len(values) > 0
                 THEN statistics @@ (col :> ColumnStatistics(values, statistics, col))
                 ELSE statistics)

\* !data || data.length === 0 at the head of analyzeData
AnalyzeDataThrows(d) == Len(d) = 0

\* analyzeData(data) for a non-empty dataset
AnalyzeData(d) ==
    LET columns == ColumnNames
        numericalColumns == SelectSeq(columns, LAMBDA col : IsNumerical(d, col))
        categoricalColumns == SelectSeq(columns, LAMBDA col : ~IsNumerical(d, col))
    IN  [shape |-> [rows |-> Len(d), columns |-> Len(columns)],
         columns |-> columns,
         dtypes |-> [col \in {columns[i] : i \in 1..Len(columns)} |->
                        IF IsNumerical(d, col) THEN "number" ELSE "string"],
         missingValues |-> [col \in {columns[i] : i \in 1..Len(columns)} |->
                        MissingCount(d, col)],
         numericalColumns |-> numericalColumns,
         categoricalColumns |-> categoricalColumns,
         statistics |-> StatisticsLoop(d, numericalColumns, <<>>)]

\* data.map(row => row[targetColumn]).filter(val => val !== null && val !== undefined)
TargetValues(d, targetColumn) ==
    SelectSeq(ColumnValues(d, targetColumn), LAMBDA val : val # Null /\ val # Undefined)

\* new Set(targetValues).size
UniqueCount(values) == Cardinality({values[i] : i \in 1..Len(values)})

\* FewUniqueValues without the share-of-rows clause
FewUniqueValuesAbsoluteOnly(size, rows) == size <= 20

\* uniqueValues.size <= 20 || uniqueValues.size < data.length * 0.1
FewUniqueValues(size, rows) == size <= 20 \/ size * 10 < rows

\* numericalTargets.length > targetValues.length * 0.8
MostlyNumerical(targetValues) ==
    Len(NumericalValues(targetValues)) * 5 > Len(targetValues) * 4

DetectProblemType(d, targetColumn) ==
    LET targetValues == TargetValues(d, targetColumn)
    IN  IF FewUniqueValues(UniqueCount(targetValues), Len(d)) THEN "classification"
        ELSE IF MostlyNumerical(targetValues) THEN "regression"
        ELSE "classification"

\* Whether Object.keys lists the key String(v) among the integer-like keys, which
\* come first and in ascending numeric order, before the other keys in insertion
\* order (the model's numbers are non-negative integers)
IsIndexKey(v) == v.k = "number" \/ (v.k = "string" /\ v.s \in {"1", "7"})

\* getClassBalance(data, targetColumn): the entries of the returned object in
\* enumeration order
GetClassBalance(d, targetColumn) ==
    LET values == ColumnValues(d, targetColumn)
        key(i) == ToString10(values[i])
        count(i) == Cardinality({j \in 1..Len(d) : key(j) = key(i)})
        first == SelectSeq([i \in 1..Len(d) |-> i],
                           LAMBDA i : \A j \in 1..(i - 1) : key(j) # key(i))
        indexFirst == SelectSeq(first, LAMBDA i : IsIndexKey(values[i]))
        otherFirst == SelectSeq(first, LAMBDA i : ~IsIndexKey(values[i]))
        indexSorted == SortAsc([i \in 1..Len(indexFirst) |-> ToNumber(values[indexFirst[i]]).n])
        rowOfIndex(n) == CHOOSE i \in {indexFirst[m] : m \in 1..Len(indexFirst)} :
                             ToNumber(values[i]).n = n
        order == [i \in 1..Len(indexSorted) |-> rowOfIndex(indexSorted[i])] \o otherFirst
    IN  [i \in 1..Len(order) |-> [key |-> key(order[i]), count |-> count(order[i])]]

\* The value prepareFeatures pushes for a present cell: the number itself, the
\* number a string parses to, or the first character code modulo 100
EncodeValue(value) ==
    IF value.k = "number" THEN value.n
    ELSE IF ~IsNaN(ToNumber(value)) THEN ToNumber(value).n
    ELSE CharCodeAt0(ToString10(value)) % 100

\* value === null || value === undefined || value === ''
FeatureMissing(value) == value = Null \/ value = Undefined \/ value = Str("")

\* row[targetColumn] !== null && row[targetColumn] !== undefined
TargetPresent(value) == value # Null /\ value # Undefined

\* validRow after the loop over featureColumns
ValidRow(row, featureColumns) ==
    \A i \in 1..Len(featureColumns) : ~FeatureMissing(row[featureColumns[i]])

\* featureRow after the loop over featureColumns
FeatureRow(row, featureColumns) ==
    LET present == SelectSeq(featureColumns, LAMBDA col : ~FeatureMissing(row[col]))
    IN  [i \in 1..Len(present) |-> EncodeValue(row[present[i]])]

\* The rows prepareFeatures pushes, as indices into data, in the order pushed
KeptRows(d, featureColumns, targetColumn) ==
    SelectSeq([i \in 1..Len(d) |-> i],
              LAMBDA i : ValidRow(d[i], featureColumns) /\ TargetPresent(Cell(d[i], targetColumn)))

\* PrepareFeatures pushing the target of every row whose target is present, also
\* when a feature of the row is missing
PrepareFeaturesTargetOfEveryRow(d, featureColumns, targetColumn) ==
    LET kept == KeptRows(d, featureColumns, targetColumn)
        present == SelectSeq([i \in 1..Len(d) |-> i],
                             LAMBDA i : TargetPresent(Cell(d[i], targetColumn)))
    IN  [features |-> [i \in 1..Len(kept) |-> FeatureRow(d[kept[i]], featureColumns)],
         targets |-> [i \in 1..Len(present) |-> EncodeValue(Cell(d[present[i]], targetColumn))]]

PrepareFeatures(d, featureColumns, targetColumn) ==
    LET kept == KeptRows(d, featureColumns, targetColumn)
    IN  [features |-> [i \in 1..Len(kept) |-> FeatureRow(d[kept[i]], featureColumns)],
         targets |-> [i \in 1..Len(kept) |-> EncodeValue(Cell(d[kept[i]], targetColumn))]]

\* analysis.columns.filter(col => col !== selectedTarget)
FeatureColumnsFor(columns, selectedTarget) ==
    SelectSeq(columns, LAMBDA col : col # selectedTarget)

----------------------------------------------------------------------------
(* The decision tree.  Features and labels are non-negative integers; a threshold
   (a midpoint) and a Gini impurity are exact fractions num/den with den > 0. *)

Frac(n, d) == [num |-> n, den |-> d]

\* FracLess holding for equal fractions too
FracAtMost(a, b) == a.num * b.den <= b.num * a.den

\* a < b for fractions with positive denominators
FracLess(a, b) == a.num * b.den < b.num * a.den

maxDepth == 10

minSamplesSplit == 2

SeqSet(s) == {s[i] : i \in 1..Len(s)}

CountOf(y, v) == Cardinality({i \in 1..Len(y) : y[i] = v})

\* The elements of a set of integers in ascending order
RECURSIVE SortedSet(_)
SortedSet(S) ==
    IF S = {} THEN <<>>
    ELSE LET m == CHOOSE x \in S : \A z \in S : x <= z
         IN  <<m>> \o SortedSet(S \ {m})

\* keys.reduce((a, b) => counts[a] > counts[b] ? a : b) with a the running value
RECURSIVE ReduceMostCommon(_, _, _)
ReduceMostCommon(a, keys, y) ==
    IF keys = <<>> THEN a
    ELSE ReduceMostCommon(IF CountOf(y, a) > CountOf(y, Head(keys)) THEN a ELSE Head(keys),
                          Tail(keys), y)

\* Object.keys(counts).reduce(...) without an initial value throws a TypeError
\* when counts has no key
ReduceThrows(y) == Len(y) = 0

\* getMostCommonValue(y) for a non-empty y: Object.keys(counts) lists the labels,
\* integer keys, in ascending order
GetMostCommonValue(y) ==
    LET keys == SortedSet(SeqSet(y))
    IN  ReduceMostCommon(Head(keys), Tail(keys), y)

\* calculateGini(y) = 1 - sum of (count / y.length)^2
CalculateGini(y) ==
    IF Len(y) = 0 THEN Frac(1, 1)
    ELSE LET labels == SortedSet(SeqSet(y))
             squares == SumSeq([i \in 1..Len(labels) |->
                            CountOf(y, labels[i]) * CountOf(y, labels[i])])
         IN  Frac(Len(y) * Len(y) - squares, Len(y) * Len(y))

\* leftWeight * gini(leftY) + rightWeight * gini(rightY)
CalculateWeightedGini(leftY, rightY) ==
    LET totalSamples == Len(leftY) + Len(rightY)
        gl == CalculateGini(leftY)
        gr == CalculateGini(rightY)
    IN  Frac(Len(leftY) * gl.num * gr.den + Len(rightY) * gr.num * gl.den,
             totalSamples * gl.den * gr.den)

\* row[feature] <= threshold
AtMostThreshold(x, threshold) == x * threshold.den <= threshold.num

\* SplitCandidates stopping after the first feature
SplitCandidatesFirstFeature(X, feature) ==
    IF feature >= 1 THEN <<>>
    ELSE LET uniqueValues == SortedSet({X[r][feature + 1] : r \in 1..Len(X)})
         IN  [i \in 1..(Len(uniqueValues) - 1) |->
                 [feature |-> feature,
                  threshold |-> Frac(uniqueValues[i] + uniqueValues[i + 1], 2)]]

\* The (feature, threshold) pairs findBestSplit visits, in its iteration order:
\* features ascending, then midpoints of adjacent distinct sorted values
RECURSIVE SplitCandidates(_, _)
SplitCandidates(X, feature) ==
    IF feature >= Len(X[1]) THEN <<>>
    ELSE LET uniqueValues == SortedSet({X[r][feature + 1] : r \in 1..Len(X)})
         IN  [i \in 1..(Len(uniqueValues) - 1) |->
                 [feature |-> feature,
                  threshold |-> Frac(uniqueValues[i] + uniqueValues[i + 1], 2)]]
             \o SplitCandidates(X, feature + 1)

\* The body of findBestSplit's inner loop for one candidate; best is <<>> while
\* bestGini is Infinity
RECURSIVE BestSplitLoop(_, _, _, _)
BestSplitLoop(X, y, candidates, best) ==
    IF candidates = <<>> THEN best
    ELSE LET c == Head(candidates)
             rows == [i \in 1..Len(X) |-> i]
             leftIndices == SelectSeq(rows,
                 LAMBDA i : AtMostThreshold(X[i][c.feature + 1], c.threshold))
             rightIndices == SelectSeq(rows,
                 LAMBDA i : ~AtMostThreshold(X[i][c.feature + 1], c.threshold))
             gini == CalculateWeightedGini([i \in 1..Len(leftIndices) |-> y[leftIndices[i]]],
                                           [i \in 1..Len(rightIndices) |-> y[rightIndices[i]]])
             next == IF Len(leftIndices) = 0 \/ Len(rightIndices) = 0 THEN best
                     ELSE IF best = <<>> \/ FracLess(gini, best[1].gini)
                     THEN <<[feature |-> c.feature, threshold |-> c.threshold,
                             leftIndices |-> leftIndices, rightIndices |-> rightIndices,
                             gini |-> gini]>>
                     ELSE best
         IN  BestSplitLoop(X, y, Tail(candidates), next)

\* findBestSplit(X, y): <<>> for null, else <<the split>>
FindBestSplit(X, y) == BestSplitLoop(X, y, SplitCandidates(X, 0), <<>>)

Leaf(value) == [leaf |-> TRUE, value |-> value]

\* buildTree(X, y, depth) for a non-empty y
RECURSIVE BuildTree(_, _, _)
BuildTree(X, y, depth) ==
    IF depth >= maxDepth \/ Len(X) < minSamplesSplit \/ Cardinality(SeqSet(y)) = 1
    THEN Leaf(GetMostCommonValue(y))
    ELSE LET bestSplit == FindBestSplit(X, y)
         IN  IF bestSplit = <<>> THEN Leaf(GetMostCommonValue(y))
             ELSE LET l == bestSplit[1].leftIndices
                      r == bestSplit[1].rightIndices
                  IN  [leaf |-> FALSE,
                       feature |-> bestSplit[1].feature,
                       threshold |-> bestSplit[1].threshold,
                       left |-> BuildTree([i \in 1..Len(l) |-> X[l[i]]],
                                          [i \in 1..Len(l) |-> y[l[i]]], depth + 1),
                       right |-> BuildTree([i \in 1..Len(r) |-> X[r[i]]],
                                           [i \in 1..Len(r) |-> y[r[i]]], depth + 1)]

\* predictSingle(x, node)
RECURSIVE PredictSingle(_, _)
PredictSingle(x, node) ==
    IF node.leaf THEN node.value
    ELSE IF AtMostThreshold(x[node.feature + 1], node.threshold)
    THEN PredictSingle(x, node.left)
    ELSE PredictSingle(x, node.right)

\* DecisionTree.predict(X)
TreePredict(tree, X) == [i \in 1..Len(X) |-> PredictSingle(X[i], tree)]

----------------------------------------------------------------------------
(* The metrics engine.  A reported metric is a JavaScript number: NaN, an
   infinity, or a value with four decimals kept as the integer e4 = value * 10^4;
   the exact value before rounding is a fraction. *)

Fixed(e4) == [kind |-> "number", e4 |-> e4]

NotANumber == [kind |-> "NaN", e4 |-> 0]

NegativeInfinity == [kind |-> "-Infinity", e4 |-> 0]

Abs(i) == IF i < 0 THEN -i ELSE i

\* Number(x.toFixed(4)) for x = num/den, den > 0: the nearest multiple of 10^-4,
\* a tie going away from zero
ToFixed4(x) ==
    LET a == Abs(x.num) * 10000
        q == (a \div x.den) + (IF 2 * (a % x.den) >= x.den THEN 1 ELSE 0)
    IN  Fixed(IF x.num < 0 THEN -q ELSE q)

\* The largest r with r * r * den <= num
RECURSIVE FloorSqrt(_, _, _)
FloorSqrt(num, den, r) ==
    IF (r + 1) * (r + 1) * den <= num THEN FloorSqrt(num, den, r + 1) ELSE r

\* One more decimal digit of a square root: root is the floor of the root so far
\* and rem = (radicand so far) - root^2 * den; the next digit is the largest d
\* with (20 * root * d + d * d) * den <= 100 * rem
NextSqrtDigit(root, rem, den) ==
    CHOOSE d \in 0..9 :
        /\ (20 * root * d + d * d) * den <= 100 * rem
        /\ d < 9 => (20 * root * (d + 1) + (d + 1) * (d + 1)) * den > 100 * rem

RECURSIVE SqrtDigits(_, _, _, _)
SqrtDigits(root, rem, den, digits) ==
    IF digits = 0 THEN [root |-> root, rem |-> rem]
    ELSE LET d == NextSqrtDigit(root, rem, den)
         IN  SqrtDigits(10 * root + d, 100 * rem - (20 * root * d + d * d) * den,
                        den, digits - 1)

\* SqrtToFixed4 cutting the root off after four decimals
SqrtToFixed4Truncated(x) ==
    LET r0 == FloorSqrt(x.num, x.den, 0)
        r == SqrtDigits(r0, x.num - r0 * r0 * x.den, x.den, 4)
    IN  Fixed(r.root)

\* Number(Math.sqrt(x).toFixed(4)) for x = num/den >= 0: four decimals of the
\* root digit by digit, then rounded up when the rest is a half or more
SqrtToFixed4(x) ==
    LET r0 == FloorSqrt(x.num, x.den, 0)
        r == SqrtDigits(r0, x.num - r0 * r0 * x.den, x.den, 4)
    IN  Fixed(IF 4 * r.rem >= (4 * r.root + 1) * x.den THEN r.root + 1 ELSE r.root)

\* predicted[idx] (0-based idx = i - 1): <<>> for undefined
At(predicted, i) == IF i \in 1..Len(predicted) THEN <<predicted[i]>> ELSE <<>>

RegressionMetrics(actual, predicted) ==
    LET n == Len(actual)
        defined == \A i \in 1..n : At(predicted, i) # <<>>
        sqErr == SumSeq([i \in 1..n |-> (actual[i] - predicted[i]) * (actual[i] - predicted[i])])
        absErr == SumSeq([i \in 1..n |-> Abs(actual[i] - predicted[i])])
        \* sum of (actual - mean)^2 = (n * sum of squares - (sum)^2) / n
        tssNum == n * SumSeq([i \in 1..n |-> actual[i] * actual[i]])
                    - SumSeq(actual) * SumSeq(actual)
    IN  IF n = 0 \/ ~defined
        THEN [mse |-> NotANumber, mae |-> NotANumber, rmse |-> NotANumber, r2 |-> NotANumber]
        ELSE [mse |-> ToFixed4(Frac(sqErr, n)),
              mae |-> ToFixed4(Frac(absErr, n)),
              rmse |-> SqrtToFixed4(Frac(sqErr, n)),
              r2 |-> IF tssNum = 0
                     THEN (IF sqErr = 0 THEN NotANumber ELSE NegativeInfinity)
                     \* 1 - (mse * n) / tss with tss = tssNum / n
                     ELSE ToFixed4(Frac(tssNum - sqErr * n, tssNum))]

\* UniqueClasses leaving out the predicted labels
UniqueClassesOfActual(actual, predicted) == SeqSet(actual)

\* [...new Set([...actual, ...predicted])] as a set
UniqueClasses(actual, predicted) == SeqSet(actual) \cup SeqSet(predicted)

ClassificationMetrics(actual, predicted) ==
    LET n == Len(actual)
        correct == Cardinality({i \in 1..n : At(predicted, i) = <<actual[i]>>})
        uniqueClasses == UniqueClasses(actual, predicted)
        positiveClass == CHOOSE c \in uniqueClasses : \A o \in uniqueClasses : c >= o
        tp == Cardinality({i \in 1..n :
                  actual[i] = positiveClass /\ At(predicted, i) = <<positiveClass>>})
        fp == Cardinality({i \in 1..Len(predicted) :
                  predicted[i] = positiveClass /\ At(actual, i) # <<positiveClass>>})
        fn == Cardinality({i \in 1..n :
                  actual[i] = positiveClass /\ At(predicted, i) # <<positiveClass>>})
        binary == Cardinality(uniqueClasses) = 2
        \* x / y || 0
        orZero(x, y) == IF y = 0 \/ x = 0 THEN Frac(0, 1) ELSE Frac(x, y)
        precision == IF binary THEN orZero(tp, tp + fp) ELSE Frac(0, 1)
        recall == IF binary THEN orZero(tp, tp + fn) ELSE Frac(0, 1)
        \* 2 * (precision * recall) / (precision + recall) || 0
        f1 == IF precision.num = 0 \/ recall.num = 0 THEN Frac(0, 1)
              ELSE Frac(2 * precision.num * recall.num,
                        precision.num * recall.den + recall.num * precision.den)
    IN  [accuracy |-> IF n = 0 THEN NotANumber ELSE ToFixed4(Frac(correct, n)),
         precision |-> ToFixed4(precision),
         recall |-> ToFixed4(recall),
         f1 |-> ToFixed4(f1)]

CalculateMetrics(actual, predicted, problemType_) ==
    IF problemType_ = "regression"
    THEN [regression |-> <<RegressionMetrics(actual, predicted)>>, classification |-> <<>>]
    ELSE [regression |-> <<>>, classification |-> <<ClassificationMetrics(actual, predicted)>>]

\* The decimal digits of n >= 0, most significant first
RECURSIVE Digits(_)
Digits(n) == IF n < 10 THEN <<n>> ELSE Digits(n \div 10) \o <<n % 10>>

\* String(a) < String(b) in code-unit order, for non-negative integers
RECURSIVE LexLess(_, _)
LexLess(a, b) ==
    IF a = <<>> THEN b # <<>>
    ELSE IF b = <<>> THEN FALSE
    ELSE IF Head(a) # Head(b) THEN Head(a) < Head(b)
    ELSE LexLess(Tail(a), Tail(b))

\* array.sort() without a comparator: ascending by the elements' string forms
RECURSIVE SortByString(_)
SortByString(S) ==
    IF S = {} THEN <<>>
    ELSE LET m == CHOOSE x \in S : \A z \in S \ {x} : LexLess(Digits(x), Digits(z))
         IN  <<m>> \o SortByString(S \ {m})

CalculateConfusionMatrix(actual, predicted) ==
    LET uniqueClasses == SortByString(UniqueClasses(actual, predicted))
        k == Len(uniqueClasses)
    IN  [a \in 1..k |-> [p \in 1..k |->
            Cardinality({i \in 1..Len(actual) :
                actual[i] = uniqueClasses[a] /\ At(predicted, i) = <<uniqueClasses[p]>>})]]

----------------------------------------------------------------------------
(* trainModel.  Its body is followed statement by statement: pc is the position,
   the other fields of tm are its arguments and locals.  The in-core decision
   tree is computed.  The weights gradient descent arrives at are real numbers
   the model does not compute: fitting the logistic regression yields weights and
   a bias drawn from small sets, and the prediction is computed from them.  The
   library models (ml-regression, ml-random-forest) are not part of the
   repository: constructing or training one either fails or succeeds, and its
   predictions are drawn from a small set. *)

\* SplitIndex rounding 0.8 * n to the nearest integer
SplitIndexRounded(n) == (n * 4 + 2) \div 5

\* Math.floor(X.length * 0.8)
SplitIndex(n) == (n * 4) \div 5

\* Branch with the token auto of a classification going to the decision tree
BranchAutoAsTree(problemType_, modelType) ==
    IF problemType_ = "regression"
    THEN (IF modelType \in {"linear", "auto"} THEN "linear"
          ELSE IF modelType = "randomforest" THEN "rfRegression"
          ELSE "none")
    ELSE (IF modelType = "logistic" THEN "logistic"
          ELSE IF modelType \in {"decisiontree", "auto"} THEN "decisiontree"
          ELSE IF modelType = "randomforest" THEN "rfClassifier"
          ELSE "none")

\* The branch of the if-else chain the arguments select ("none": no branch)
Branch(problemType_, modelType) ==
    IF problemType_ = "regression"
    THEN (IF modelType = "linear" \/ modelType = "auto" THEN "linear"
          ELSE IF modelType = "randomforest" THEN "rfRegression"
          ELSE "none")
    ELSE (IF modelType = "logistic" \/ modelType = "auto" THEN "logistic"
          ELSE IF modelType = "decisiontree" THEN "decisiontree"
          ELSE IF modelType = "randomforest" THEN "rfClassifier"
          ELSE "none")

\* XTrain[0].length === 1 selects the univariate form
LinearKind(XTrain) == IF Len(XTrain[1]) = 1 THEN "simple" ELSE "multivariate"

\* The modelName each branch assigns
ModelName(kind) ==
    CASE kind = "simple" -> "Linear Regression"
      [] kind = "multivariate" -> "Multivariate Linear Regression"
      [] kind = "rfRegression" -> "Random Forest Regression"
      [] kind = "logistic" -> "Logistic Regression"
      [] kind = "decisiontree" -> "Decision Tree"
      [] kind = "rfClassifier" -> "Random Forest Classifier"

\* The weights and the bias a fitted LogisticRegression may hold
FittedWeights == {-1, 1}

FittedBiases == {-1, 0}

\* The values a library model may predict
LibraryOutputs == {0, 1}

\* The elapsed milliseconds Date.now() - startTime may give
ElapsedTimes == {0, 1}

NoModel == [kind |-> "none", tree |-> Leaf(0), weights |-> <<>>, bias |-> 0]

\* LogisticRegression.predict(x): the linear score
LinearScore(model, x) == SumSeq([j \in 1..Len(x) |-> x[j] * model.weights[j]]) + model.bias

\* RoundedProba without the sigmoid and the rounding: the linear score itself
RoundedProbaAsScore(model, x) == LinearScore(model, x)

\* Math.round(model.predictProba(row)): the sigmoid is at least 1/2 exactly when
\* the score is at least 0, and Math.round(0.5) is 1
RoundedProba(model, x) == IF LinearScore(model, x) >= 0 THEN 1 ELSE 0

\* The state of a trainModel call on entry
TrainEntry(X, y, problemType_, modelType) ==
    [pc |-> "start", X |-> X, y |-> y, problemType |-> problemType_, modelType |-> modelType,
     splitIndex |-> 0, XTrain |-> <<>>, yTrain |-> <<>>, XTest |-> <<>>, yTest |-> <<>>,
     model |-> NoModel, predictions |-> <<>>, modelName |-> "", caught |-> "",
     result |-> <<>>]

\* ArrayAfterSlice for splice, which removes the elements it returns
ArrayAfterSplice(array, begin, end) ==
    LET e == IF end > Len(array) THEN Len(array) ELSE end
    IN  IF begin >= e THEN array
        ELSE SubSeq(array, 1, begin) \o SubSeq(array, e + 1, Len(array))

\* The array slice(begin, end) was called on, after the call: slice copies
ArrayAfterSlice(array, begin, end) == array

\* const splitIndex ... let modelName = ''
TrainSplit ==
    /\ tm.pc = "start"
    /\ LET splitIndex == SplitIndex(Len(tm.X))
       IN  tm' = [tm EXCEPT !.pc = "try",
                            !.splitIndex = splitIndex,
                            !.X = ArrayAfterSlice(tm.X, 0, splitIndex),
                            !.y = ArrayAfterSlice(tm.y, 0, splitIndex),
                            !.XTrain = Slice(tm.X, 0, splitIndex),
                            !.yTrain = Slice(tm.y, 0, splitIndex),
                            !.XTest = Slice(tm.X, splitIndex, Len(tm.X)),
                            !.yTest = Slice(tm.y, splitIndex, Len(tm.y)),
                            !.model = NoModel,
                            !.predictions = <<>>,
                            !.modelName = ""]
    /\ UNCHANGED <<data, call, target, analysis, problemType, classBalance, prepared, thrown, app, earlier, unit>>

\* No branch of the chain matches: the try block assigns nothing
TrainNoBranch ==
    /\ tm.pc = "try"
    /\ Branch(tm.problemType, tm.modelType) = "none"
    /\ tm' = [tm EXCEPT !.pc = "return"]
    /\ UNCHANGED <<data, call, target, analysis, problemType, classBalance, prepared, thrown, app, earlier, unit>>

\* With no training row, XTrain[0].length (in the linear branch, the random
\* forest options and LogisticRegression.fit) and the reduce of
\* getMostCommonValue over no key throw a TypeError
TrainFitThrowsOnEmpty ==
    /\ tm.pc = "try"
    /\ Branch(tm.problemType, tm.modelType) # "none"
    /\ tm.XTrain = <<>>
    /\ tm' = [tm EXCEPT !.pc = "catch", !.caught = "TypeError"]
    /\ UNCHANGED <<data, call, target, analysis, problemType, classBalance, prepared, thrown, app, earlier, unit>>

\* A library model is constructed and trained, or fails
TrainFitLibrary ==
    /\ tm.pc = "try"
    /\ tm.XTrain # <<>>
    /\ LET branch == Branch(tm.problemType, tm.modelType)
           kind == IF branch = "linear" THEN LinearKind(tm.XTrain) ELSE branch
       IN  /\ branch \in {"linear", "rfRegression", "rfClassifier"}
           /\ \/ tm' = [tm EXCEPT !.pc = "predict", !.model = [NoModel EXCEPT !.kind = kind]]
              \/ tm' = [tm EXCEPT !.pc = "catch", !.caught = "Error"]
    /\ UNCHANGED <<data, call, target, analysis, problemType, classBalance, prepared, thrown, app, earlier, unit>>

\* FitArguments handing the whole of X and y to fit
FitArgumentsAllRows(t) == [X |-> t.X, y |-> t.y]

\* The arguments of model.fit(XTrain, yTrain)
FitArguments(t) == [X |-> t.XTrain, y |-> t.yTrain]

\* FittedLogistic with weights that do not start from zero but from anywhere
FittedLogisticAnyStart(X, y, fitted) ==
    [weights : [1..Len(X[1]) -> FittedWeights], bias : FittedBiases]

\* The weights and bias LogisticRegression.fit(X, y) ends with.  fit starts from
\* zero weights and a zero bias and takes 1000 steps that depend on X and y
\* only, so its outcome is one value per (X, y): the one an invocation in fitted
\* ended with, had one the same arguments
FittedLogistic(X, y, fitted) ==
    LET same == {i \in 1..Len(fitted) :
                    /\ fitted[i].model.kind = "logistic"
                    /\ FitArguments(fitted[i]) = [X |-> X, y |-> y]}
    IN  IF same # {}
        THEN {[weights |-> fitted[i].model.weights, bias |-> fitted[i].model.bias] : i \in same}
        ELSE [weights : [1..Len(X[1]) -> FittedWeights], bias : FittedBiases]

\* model = new LogisticRegression(); model.fit(XTrain, yTrain)
TrainFitLogistic ==
    /\ tm.pc = "try"
    /\ tm.XTrain # <<>>
    /\ Branch(tm.problemType, tm.modelType) = "logistic"
    /\ \E fit \in FittedLogistic(FitArguments(tm).X, FitArguments(tm).y, earlier) :
          tm' = [tm EXCEPT !.pc = "predict",
                           !.model = [NoModel EXCEPT !.kind = "logistic",
                                                     !.weights = fit.weights,
                                                     !.bias = fit.bias]]
    /\ UNCHANGED <<data, call, target, analysis, problemType, classBalance, prepared, thrown, app, earlier, unit>>

\* model = new DecisionTree(); model.fit(XTrain, yTrain)
TrainFitTree ==
    /\ tm.pc = "try"
    /\ tm.XTrain # <<>>
    /\ Branch(tm.problemType, tm.modelType) = "decisiontree"
    /\ tm' = [tm EXCEPT !.pc = "predict",
                        !.model = [NoModel EXCEPT !.kind = "decisiontree",
                                                  !.tree = BuildTree(FitArguments(tm).X,
                                                                     FitArguments(tm).y, 0)]]
    /\ UNCHANGED <<data, call, target, analysis, problemType, classBalance, prepared, thrown, app, earlier, unit>>

\* The predictions the fitted model may give over XTest
Predictions(model, XTest) ==
    CASE model.kind = "logistic" -> {[i \in 1..Len(XTest) |-> RoundedProba(model, XTest[i])]}
      [] model.kind = "decisiontree" -> {TreePredict(model.tree, XTest)}
      [] OTHER -> [1..Len(XTest) -> LibraryOutputs]

\* predictions = ... of the fitted model over XTest
TrainPredict ==
    /\ tm.pc = "predict"
    /\ \E predictions \in Predictions(tm.model, tm.XTest) :
          tm' = [tm EXCEPT !.pc = "name", !.predictions = predictions]
    /\ UNCHANGED <<data, call, target, analysis, problemType, classBalance, prepared, thrown, app, earlier, unit>>

\* modelName = '...': the last statement of each branch
TrainName ==
    /\ tm.pc = "name"
    /\ tm' = [tm EXCEPT !.pc = "return", !.modelName = ModelName(tm.model.kind)]
    /\ UNCHANGED <<data, call, target, analysis, problemType, classBalance, prepared, thrown, app, earlier, unit>>

\* catch (error) { throw new Error(`Failed to train ${modelName}: ${error}`) }
TrainCatch ==
    /\ tm.pc = "catch"
    /\ thrown' = "Failed to train " \o tm.modelName \o ": " \o tm.caught
    /\ tm' = [tm EXCEPT !.pc = "thrown"]
    /\ UNCHANGED <<data, call, target, analysis, problemType, classBalance, prepared, app, earlier, unit>>

\* The statements after the try block, to the return
TrainReturn ==
    /\ tm.pc = "return"
    /\ \E trainingTime \in ElapsedTimes :
          tm' = [tm EXCEPT !.pc = "returned",
                   !.result = <<[model |-> tm.modelName,
                                 problemType |-> tm.problemType,
                                 metrics |-> CalculateMetrics(tm.yTest, tm.predictions, tm.problemType),
                                 predictions |-> tm.predictions,
                                 actualValues |-> tm.yTest,
                                 confusionMatrix |->
                                     IF tm.problemType = "classification"
                                     THEN <<CalculateConfusionMatrix(tm.yTest, tm.predictions)>>
                                     ELSE <<>>,
                                 trainingTime |-> trainingTime]>>]
    /\ UNCHANGED <<data, call, target, analysis, problemType, classBalance, prepared, thrown, app, earlier, unit>>

\* The longest feature matrix handed to trainModel
MaxTrainRows == 6

\* The (feature vector, target) pairs the matrices are built from, with one and
\* with two feature columns
TrainPool1 == {[x |-> <<0>>, y |-> 0], [x |-> <<2>>, y |-> 1]}

TrainPool2 == {[x |-> <<0, 1>>, y |-> 0], [x |-> <<1, 0>>, y |-> 1]}

TrainInputs ==
    UNION {[1..n -> TrainPool1] \cup [1..n -> TrainPool2] : n \in 0..MaxTrainRows}

ProblemTypes == {"classification", "regression"}

ModelTypes == {"auto", "linear", "logistic", "decisiontree", "randomforest"}

InitTrain ==
    /\ app = NoApp
    /\ earlier = <<>>
    /\ unit = NoUnit
    /\ data = <<>>
    /\ call = "trainModel"
    /\ target = ""
    /\ analysis = <<>>
    /\ problemType = ""
    /\ classBalance = <<>>
    /\ prepared = <<>>
    /\ thrown = ""
    /\ \E rows \in TrainInputs, problemType_ \in ProblemTypes, modelType \in ModelTypes :
          tm = TrainEntry([i \in 1..Len(rows) |-> rows[i].x],
                          [i \in 1..Len(rows) |-> rows[i].y],
                          problemType_, modelType)

NextTrain ==
    \/ TrainSplit
    \/ TrainNoBranch
    \/ TrainFitThrowsOnEmpty
    \/ TrainFitLibrary
    \/ TrainFitLogistic
    \/ TrainFitTree
    \/ TrainPredict
    \/ TrainName
    \/ TrainCatch
    \/ TrainReturn

SpecTrain == InitTrain /\ [][NextTrain]_vars

----------------------------------------------------------------------------
(* Two trainModel calls one after the other, with an in-core model: the second
   call has the problem type, the token and the row count of the first, and rows
   that differ from the first call's in at most the last two *)

\* The longest feature matrix of the two calls
MaxPairRows == 5

PairInputs ==
    UNION {[1..n -> TrainPool1] \cup [1..n -> TrainPool2] : n \in 0..MaxPairRows}

\* The tokens of a classification that select an in-core model
InCoreModels == {"auto", "logistic", "decisiontree"}

InitPair ==
    /\ app = NoApp
    /\ earlier = <<>>
    /\ unit = NoUnit
    /\ data = <<>>
    /\ call = "trainModel"
    /\ target = ""
    /\ analysis = <<>>
    /\ problemType = ""
    /\ classBalance = <<>>
    /\ prepared = <<>>
    /\ thrown = ""
    /\ \E rows \in PairInputs, modelType \in InCoreModels :
          tm = TrainEntry([i \in 1..Len(rows) |-> rows[i].x],
                          [i \in 1..Len(rows) |-> rows[i].y],
                          "classification", modelType)

\* The inputs of the second call: the first call's, its last two rows replaced
SecondInputs(t) ==
    LET n == Len(t.X)
        last == {i \in 1..n : i > n - 2}
        pool == IF n > 0 /\ Len(t.X[1]) = 2 THEN TrainPool2 ELSE TrainPool1
    IN  {[X |-> [i \in 1..n |-> IF i \in last THEN f[i].x ELSE t.X[i]],
          y |-> [i \in 1..n |-> IF i \in last THEN f[i].y ELSE t.y[i]]] : f \in [last -> pool]}

\* The caller invokes trainModel again once the first call has ended
CallAgain ==
    /\ tm.pc \in {"returned", "thrown"}
    /\ earlier = <<>>
    /\ earlier' = <<tm>>
    /\ \E in \in SecondInputs(tm) :
          tm' = TrainEntry(in.X, in.y, tm.problemType, tm.modelType)
    /\ UNCHANGED <<data, call, target, analysis, problemType, classBalance, prepared, thrown,
                   app, unit>>

NextPair ==
    \/ TrainSplit
    \/ TrainFitThrowsOnEmpty
    \/ TrainFitLogistic
    \/ TrainFitTree
    \/ TrainPredict
    \/ TrainName
    \/ TrainCatch
    \/ TrainReturn
    \/ CallAgain

SpecPair == InitPair /\ [][NextPair]_vars

----------------------------------------------------------------------------
(* Datasets of the data-processor specification *)

\* The longest dataset enumerated row by row
MaxRows == 3

\* The rows the enumerated datasets are built from: every kind of missing cell in
\* the feature and in the target, numbers, numeric strings and other strings
RowPool ==
    { [f |-> Num(5), t |-> Num(0)],
      [f |-> Num(7), t |-> Num(1)],
      [f |-> Null, t |-> Num(1)],
      [f |-> Undefined, t |-> Num(0)],
      [f |-> Str(""), t |-> Num(1)],
      [f |-> Num(5), t |-> Null],
      [f |-> Num(7), t |-> Undefined],
      [f |-> Num(1), t |-> Str("")],
      [f |-> Str("a"), t |-> Str("b")],
      [f |-> Str("7"), t |-> Str("1")] }

SmallDatasets == UNION {[1..n -> RowPool] : n \in 0..MaxRows}

\* Ten complete rows with one cell of one row replaced by a missing value
TenRows == [i \in 1..10 |-> [f |-> Num(i), t |-> Num(i % 2)]]

TenRowDatasets ==
    {TenRows} \cup
    {[TenRows EXCEPT ![i][col] = m] :
        i \in 1..10, col \in {"f", "t"}, m \in {Null, Undefined, Str("")}}

\* No trainModel call is in progress
NoTrain == [TrainEntry(<<>>, <<>>, "", "") EXCEPT !.pc = "idle"]

InitData ==
    /\ app = NoApp
    /\ earlier = <<>>
    /\ unit = NoUnit
    /\ data \in SmallDatasets \cup TenRowDatasets
    /\ call = "none"
    /\ target = ""
    /\ analysis = <<>>
    /\ problemType = ""
    /\ classBalance = <<>>
    /\ prepared = <<>>
    /\ thrown = ""
    /\ tm = NoTrain

\* analyzeData(data): throws on an empty dataset
CallAnalyzeData ==
    /\ call = "none"
    /\ call' = "analyzeData"
    /\ IF AnalyzeDataThrows(data)
       THEN /\ thrown' = "No data to analyze"
            /\ analysis' = analysis
       ELSE /\ analysis' = <<AnalyzeData(data)>>
            /\ thrown' = thrown
    /\ UNCHANGED <<data, target, problemType, classBalance, prepared, tm, app, earlier, unit>>

CallDetectProblemType ==
    /\ call = "none"
    /\ \E col \in {ColumnNames[i] : i \in 1..Len(ColumnNames)} :
          /\ target' = col
          /\ problemType' = DetectProblemType(data, col)
    /\ call' = "detectProblemType"
    /\ UNCHANGED <<data, analysis, classBalance, prepared, thrown, tm, app, earlier, unit>>

CallGetClassBalance ==
    /\ call = "none"
    /\ \E col \in {ColumnNames[i] : i \in 1..Len(ColumnNames)} :
          /\ target' = col
          /\ classBalance' = <<GetClassBalance(data, col)>>
    /\ call' = "getClassBalance"
    /\ UNCHANGED <<data, analysis, problemType, prepared, thrown, tm, app, earlier, unit>>

CallPrepareFeatures ==
    /\ call = "none"
    /\ \E col \in {ColumnNames[i] : i \in 1..Len(ColumnNames)} :
          /\ target' = col
          /\ prepared' = <<PrepareFeatures(data, FeatureColumnsFor(ColumnNames, col), col)>>
    /\ call' = "prepareFeatures"
    /\ UNCHANGED <<data, analysis, problemType, classBalance, thrown, tm, app, earlier, unit>>

NextData ==
    \/ CallAnalyzeData
    \/ CallDetectProblemType
    \/ CallGetClassBalance
    \/ CallPrepareFeatures

SpecData == InitData /\ [][NextData]_vars

----------------------------------------------------------------------------
(* Datasets of the problem-type specification: a target column described by its
   row count and by how many of its cells are null, empty strings, distinct
   non-numeric strings and numbers cycling through a given count of values *)

GeneratedTarget(i, nulls, empties, texts, distinct) ==
    IF i <= nulls THEN Null
    ELSE IF i <= nulls + empties THEN Str("")
    ELSE IF i <= nulls + empties + texts THEN Str("x" \o ToString(i))
    ELSE Num((i - nulls - empties - texts - 1) % distinct)

GeneratedDataset(rows, nulls, empties, texts, distinct) ==
    [i \in 1..rows |-> [f |-> Num(1), t |-> GeneratedTarget(i, nulls, empties, texts, distinct)]]

GeneratedDatasets ==
    {GeneratedDataset(rows, nulls, empties, texts, distinct) :
        rows \in {5, 21, 25, 30, 210, 211, 1000},
        nulls \in {0, 1},
        empties \in {0, 1},
        texts \in {0, 4, 5},
        distinct \in {5, 20, 21, 22}}

InitDetect ==
    /\ app = NoApp
    /\ earlier = <<>>
    /\ unit = NoUnit
    /\ data \in GeneratedDatasets
    /\ call = "none"
    /\ target = ""
    /\ analysis = <<>>
    /\ problemType = ""
    /\ classBalance = <<>>
    /\ prepared = <<>>
    /\ thrown = ""
    /\ tm = NoTrain

NextDetect == CallDetectProblemType

SpecDetect == InitDetect /\ [][NextDetect]_vars

----------------------------------------------------------------------------
(* Datasets of the profiling specification: a column described by its row count
   and by how many of its cells are missing (null, undefined and '' in turn) and
   non-numeric strings; the other cells are numbers and numeric strings in turn *)

ProfiledCell(i, missing, texts) ==
    IF i <= missing
    THEN (CASE i % 3 = 1 -> Null [] i % 3 = 2 -> Undefined [] OTHER -> Str(""))
    ELSE IF i <= missing + texts THEN Str("x" \o ToString(i))
    ELSE IF i % 2 = 0 THEN Num(i) ELSE Str("7")

ProfiledDataset(rows, missing, texts) ==
    [i \in 1..rows |-> [f |-> ProfiledCell(i, missing, texts), t |-> Num(i % 2)]]

ProfiledDatasets ==
    UNION {{ProfiledDataset(rows, missing, texts) :
                missing \in {m \in {0, 1, 3, 5, 100} : m <= rows},
                texts \in {x \in {0, 1, 2, 3, 4, 19, 20, 21} : x <= rows}} :
           rows \in {1, 2, 4, 5, 10, 20, 100}}

InitProfile ==
    /\ app = NoApp
    /\ earlier = <<>>
    /\ unit = NoUnit
    /\ data \in ProfiledDatasets
    /\ call = "none"
    /\ target = ""
    /\ analysis = <<>>
    /\ problemType = ""
    /\ classBalance = <<>>
    /\ prepared = <<>>
    /\ thrown = ""
    /\ tm = NoTrain

NextProfile == CallAnalyzeData

SpecProfile == InitProfile /\ [][NextProfile]_vars

----------------------------------------------------------------------------
(* The App component.  Its state hooks data, analysis and selectedTarget are the
   variables data, analysis and target; analysis.problemType and
   analysis.classBalance are problemType and classBalance; the other hooks, the
   pending auto-advance timer and the position of the running handler are the
   fields of app.  A handler runs to completion before another event is
   handled: the only suspension that lets another task run is the file read of
   parseFile, during which the upload step shows nothing else to act on. *)

\* The datasets a file parses to: three complete rows, two complete rows, rows
\* whose features or targets are all missing, and 21 rows with 21 distinct
\* numeric targets
AppDatasets ==
    { <<[f |-> Num(5), t |-> Num(0)], [f |-> Num(7), t |-> Num(1)], [f |-> Num(5), t |-> Num(0)]>>,
      <<[f |-> Num(5), t |-> Num(0)], [f |-> Num(7), t |-> Num(1)]>>,
      <<[f |-> Null, t |-> Num(1)], [f |-> Str(""), t |-> Num(1)]>>,
      <<[f |-> Num(5), t |-> Null], [f |-> Num(7), t |-> Undefined]>>,
      GeneratedDataset(21, 0, 0, 0, 21) }

\* The messages a rejected parseFile carries
ParseErrors == {"Unsupported file format. Please upload CSV or Excel files."}

\* The tokens the ModelTraining radio buttons offer for a problem type
OfferedModels(problemType_) ==
    IF problemType_ = "classification"
    THEN {"auto", "logistic", "decisiontree", "randomforest"}
    ELSE {"auto", "linear", "randomforest"}

\* The most failed invocations counted
MaxFailures == 2

\* NoValidFeatures never holding
NoValidFeaturesNever(features) == FALSE

\* features.length === 0
NoValidFeatures(features) == Len(features) = 0

\* AfterFailure leaving isLoading set
AfterFailureStillLoading(a, message) ==
    [a EXCEPT !.error = message,
              !.pc = "idle",
              !.failures = IF a.failures < MaxFailures THEN a.failures + 1 ELSE a.failures]

\* catch (err) { setError(err.message) } finally { setIsLoading(false) }
AfterFailure(a, message) ==
    [a EXCEPT !.error = message,
              !.isLoading = FALSE,
              !.pc = "idle",
              !.failures = IF a.failures < MaxFailures THEN a.failures + 1 ELSE a.failures]

InitApp ==
    /\ app = NoApp
    /\ earlier = <<>>
    /\ unit = NoUnit
    /\ data = <<>>
    /\ call = "app"
    /\ target = ""
    /\ analysis = <<>>
    /\ problemType = ""
    /\ classBalance = <<>>
    /\ prepared = <<>>
    /\ thrown = ""
    /\ tm = NoTrain

\* handleFileUpload up to the await of parseFile
UploadStart ==
    /\ app.pc = "idle"
    /\ app.currentStep = "upload"
    /\ ~app.isLoading
    /\ app' = [app EXCEPT !.isLoading = TRUE, !.error = "", !.pc = "parsing"]
    /\ UNCHANGED <<data, call, target, analysis, problemType, classBalance, prepared, thrown,
                   tm, earlier, unit>>

\* The promise of parseFile settles: rejected with a message, or resolved with
\* the rows read, which may be none
ParseFileSettles ==
    /\ app.pc = "parsing"
    /\ \/ \E message \in ParseErrors :
             app' = [app EXCEPT !.pc = "parsed",
                                !.parsed = <<[rejected |-> message, data |-> <<>>]>>]
       \/ \E parsedData \in AppDatasets \cup {<<>>} :
             app' = [app EXCEPT !.pc = "parsed",
                                !.parsed = <<[rejected |-> "", data |-> parsedData]>>]
    /\ UNCHANGED <<data, call, target, analysis, problemType, classBalance, prepared, thrown,
                   tm, earlier, unit>>

\* AutoAdvanceEffect setting the timer whatever selectedTarget is
AutoAdvanceEffectAnyTarget(a, selectedTarget, analysis_) ==
    IF analysis_ # <<>> /\ a.currentStep = "analyze"
    THEN [a EXCEPT !.timer = TRUE, !.timerId = 1 - a.timerId]
    ELSE [a EXCEPT !.timer = FALSE]

\* AutoAdvanceEffect without the cleanup of the pending timer
AutoAdvanceEffectNoCleanup(a, selectedTarget, analysis_) ==
    IF selectedTarget # "" /\ analysis_ # <<>> /\ a.currentStep = "analyze"
    THEN [a EXCEPT !.timer = TRUE, !.timerId = 1 - a.timerId]
    ELSE a

\* The auto-advance effect after a render in which a, its dependencies changed,
\* is the app: the cleanup clears the pending timer, and a new timer is set when
\* selectedTarget && analysis && currentStep === 'analyze'
AutoAdvanceEffect(a, selectedTarget, analysis_) ==
    IF selectedTarget # "" /\ analysis_ # <<>> /\ a.currentStep = "analyze"
    THEN [a EXCEPT !.timer = TRUE, !.timerId = 1 - a.timerId]
    ELSE [a EXCEPT !.timer = FALSE]

\* NoDataFound never holding
NoDataFoundNever(parsedData) == FALSE

\* parsedData.length === 0
NoDataFound(parsedData) == Len(parsedData) = 0

\* handleFileUpload from the await on: the rejection, the throw on no row and the
\* throw of analyzeData are caught and stored; otherwise the dataset is stored
\* and analysed, and the auto-advance effect runs on the new step
UploadComplete ==
    /\ app.pc = "parsed"
    /\ LET outcome == app.parsed[1]
           failed(message) == [app EXCEPT !.error = message, !.isLoading = FALSE,
                                          !.pc = "idle", !.parsed = <<>>]
       IN  IF outcome.rejected # ""
           THEN /\ app' = failed(outcome.rejected)
                /\ UNCHANGED <<data, analysis>>
           ELSE IF NoDataFound(outcome.data)
           THEN /\ app' = failed("No data found in the uploaded file")
                /\ UNCHANGED <<data, analysis>>
           ELSE IF AnalyzeDataThrows(outcome.data)
           THEN /\ data' = outcome.data
                /\ app' = failed("No data to analyze")
                /\ UNCHANGED analysis
           ELSE /\ data' = outcome.data
                /\ analysis' = <<AnalyzeData(outcome.data)>>
                /\ app' = AutoAdvanceEffect(
                              [app EXCEPT !.currentStep = "analyze", !.isLoading = FALSE,
                                          !.pc = "idle", !.failures = 0, !.parsed = <<>>],
                              target, <<AnalyzeData(outcome.data)>>)
    /\ UNCHANGED <<call, target, problemType, classBalance, prepared, thrown, tm, earlier, unit>>

\* The names typed into the custom target input: nothing, the two columns, a
\* name that is no column and a column name in another case
TypedNames == {"", "f", "t", "x", "T"}

\* The button 'Type column name' / 'Select from list' of the DataAnalysisPanel
ToggleCustomInput ==
    /\ app.pc = "idle"
    /\ app.currentStep = "analyze"
    /\ analysis # <<>>
    /\ app' = [app EXCEPT !.showCustomInput = ~app.showCustomInput]
    /\ UNCHANGED <<data, call, target, analysis, problemType, classBalance, prepared, thrown,
                   tm, earlier, unit>>

\* onChange of the custom target input
SetCustomTarget ==
    /\ app.pc = "idle"
    /\ app.currentStep = "analyze"
    /\ analysis # <<>>
    /\ app.showCustomInput
    /\ \E typed \in TypedNames \ {app.customTarget} :
          app' = [app EXCEPT !.customTarget = typed]
    /\ UNCHANGED <<data, call, target, analysis, problemType, classBalance, prepared, thrown,
                   tm, earlier, unit>>

\* CustomTargetAccepted taking every name typed
CustomTargetAcceptedNonEmpty(customTarget, columns) == customTarget # ""

\* customTarget && analysis.columns.includes(customTarget)
CustomTargetAccepted(customTarget, columns) ==
    customTarget # "" /\ customTarget \in SeqSet(columns)

\* handleTargetSelect(column) of the App, with the effect it triggers
TargetSelect(column, a) ==
    /\ analysis # <<>>
    /\ target' = column
    /\ problemType' = DetectProblemType(data, column)
    /\ classBalance' = IF DetectProblemType(data, column) = "classification"
                       THEN <<GetClassBalance(data, column)>>
                       ELSE <<>>
    /\ app' = AutoAdvanceEffect(a, column, analysis)
    /\ UNCHANGED <<data, call, analysis, prepared, thrown, tm, earlier, unit>>

\* handleTargetSelection(column): a column button of the DataAnalysisPanel
HandleTargetSelect ==
    /\ app.pc = "idle"
    /\ app.currentStep = "analyze"
    /\ analysis # <<>>
    /\ ~app.showCustomInput
    /\ \E column \in SeqSet(analysis[1].columns) : TargetSelect(column, app)

\* handleCustomTargetSubmit: the name typed is handed on only when it is a column
HandleCustomTargetSubmit ==
    /\ app.pc = "idle"
    /\ app.currentStep = "analyze"
    /\ analysis # <<>>
    /\ app.showCustomInput
    /\ IF CustomTargetAccepted(app.customTarget, analysis[1].columns)
       THEN TargetSelect(app.customTarget,
                         [app EXCEPT !.showCustomInput = FALSE, !.customTarget = ""])
       ELSE UNCHANGED vars

\* The timer of the auto-advance effect fires: setCurrentStep('train'), after
\* which the effect runs on the new step; the DataAnalysisPanel is unmounted
TimerFires ==
    /\ app.pc = "idle"
    /\ app.timer
    /\ app' = AutoAdvanceEffect(
                  [app EXCEPT !.currentStep = "train",
                              !.customTarget = "", !.showCustomInput = FALSE],
                  target, analysis)
    /\ UNCHANGED <<data, call, target, analysis, problemType, classBalance, prepared, thrown,
                   tm, earlier, unit>>

\* handleModelTrain(modelType) up to the test of features.length
HandleModelTrain ==
    /\ app.pc = "idle"
    /\ app.currentStep = "train"
    /\ analysis # <<>>
    /\ target # ""
    /\ \E modelType \in OfferedModels(problemType) :
          app' = [app EXCEPT !.isLoading = TRUE, !.error = "", !.pc = "prepared",
                             !.modelType = modelType]
    /\ prepared' = <<PrepareFeatures(data, FeatureColumnsFor(analysis[1].columns, target), target)>>
    /\ UNCHANGED <<data, call, target, analysis, problemType, classBalance, thrown, tm,
                   earlier, unit>>

\* throw new Error('No valid feature data found after preprocessing'), caught
ThrowNoFeatures ==
    /\ app.pc = "prepared"
    /\ NoValidFeatures(prepared[1].features)
    /\ app' = AfterFailure(app, "No valid feature data found after preprocessing")
    /\ prepared' = <<>>
    /\ UNCHANGED <<data, call, target, analysis, problemType, classBalance, thrown, tm,
                   earlier, unit>>

\* await trainModel(features, targets, analysis.problemType, modelType): the call
CallTrainModel ==
    /\ app.pc = "prepared"
    /\ ~NoValidFeatures(prepared[1].features)
    /\ tm' = TrainEntry(prepared[1].features, prepared[1].targets, problemType, app.modelType)
    /\ app' = [app EXCEPT !.pc = "awaiting"]
    /\ UNCHANGED <<data, call, target, analysis, problemType, classBalance, prepared, thrown,
                   earlier, unit>>

\* trainModel has returned: setResults, setCurrentStep('results'), finally
TrainingDone ==
    /\ app.pc = "awaiting"
    /\ tm.pc = "returned"
    /\ app' = [app EXCEPT !.results = tm.result, !.currentStep = "results",
                          !.isLoading = FALSE, !.pc = "idle"]
    /\ tm' = NoTrain
    /\ prepared' = <<>>
    /\ UNCHANGED <<data, call, target, analysis, problemType, classBalance, thrown, earlier, unit>>

\* trainModel has thrown: catch, finally
TrainingFailed ==
    /\ app.pc = "awaiting"
    /\ tm.pc = "thrown"
    /\ app' = AfterFailure(app, thrown)
    /\ tm' = NoTrain
    /\ prepared' = <<>>
    /\ thrown' = ""
    /\ UNCHANGED <<data, call, target, analysis, problemType, classBalance, earlier, unit>>

\* handleDownloadPredictions
HandleDownloadPredictions ==
    /\ app.pc = "idle"
    /\ app.currentStep = "results"
    /\ app.results # <<>>
    /\ ~app.showPredictionsTable
    /\ app' = [app EXCEPT !.showPredictionsTable = TRUE]
    /\ UNCHANGED <<data, call, target, analysis, problemType, classBalance, prepared, thrown,
                   tm, earlier, unit>>

\* onClose of the predictions table
ClosePredictionsTable ==
    /\ app.pc = "idle"
    /\ app.showPredictionsTable
    /\ app' = [app EXCEPT !.showPredictionsTable = FALSE]
    /\ UNCHANGED <<data, call, target, analysis, problemType, classBalance, prepared, thrown,
                   tm, earlier, unit>>

\* resetApp (Start Over, shown off the upload step), with the effect cleanup;
\* the DataAnalysisPanel is unmounted
ResetApp ==
    /\ app.pc = "idle"
    /\ app.currentStep # "upload"
    /\ app' = AutoAdvanceEffect(
                  [app EXCEPT !.currentStep = "upload", !.results = <<>>, !.error = "",
                              !.showPredictionsTable = FALSE, !.failures = 0,
                              !.customTarget = "", !.showCustomInput = FALSE],
                  "", <<>>)
    /\ data' = <<>>
    /\ analysis' = <<>>
    /\ target' = ""
    /\ problemType' = ""
    /\ classBalance' = <<>>
    /\ UNCHANGED <<call, prepared, thrown, tm, earlier, unit>>

NextApp ==
    \/ UploadStart
    \/ ParseFileSettles
    \/ UploadComplete
    \/ ToggleCustomInput
    \/ SetCustomTarget
    \/ HandleTargetSelect
    \/ HandleCustomTargetSubmit
    \/ TimerFires
    \/ HandleModelTrain
    \/ ThrowNoFeatures
    \/ CallTrainModel
    \/ TrainSplit
    \/ TrainFitThrowsOnEmpty
    \/ TrainFitLibrary
    \/ TrainFitLogistic
    \/ TrainFitTree
    \/ TrainPredict
    \/ TrainName
    \/ TrainCatch
    \/ TrainReturn
    \/ TrainingDone
    \/ TrainingFailed
    \/ HandleDownloadPredictions
    \/ ClosePredictionsTable
    \/ ResetApp

SpecApp == InitApp /\ [][NextApp]_vars

\* The timer identities the model tells apart: consecutive timers differ
TimerIds == {0, 1}

\* The App with the browser's timers: a timeout that stays pending, neither
\* cleared nor replaced, has its callback run
SpecAppFair ==
    SpecApp /\ \A e \in TimerIds : WF_vars(TimerFires /\ app.timerId = e)

----------------------------------------------------------------------------
(* The profiler reached both ways: called by the App on the rows an upload
   parsed to, and called on its own on a dataset, the empty one included *)

\* No App is running: a function of the core is called on its own
NoHandler == [NoApp EXCEPT !.pc = "none"]

InitProfileOrUpload ==
    \/ InitApp
    \/ /\ app = NoHandler
       /\ earlier = <<>>
       /\ unit = NoUnit
       /\ data \in SmallDatasets
       /\ call = "none"
       /\ target = ""
       /\ analysis = <<>>
       /\ problemType = ""
       /\ classBalance = <<>>
       /\ prepared = <<>>
       /\ thrown = ""
       /\ tm = NoTrain

NextProfileOrUpload ==
    \/ NextApp
    \/ CallAnalyzeData

SpecProfileOrUpload == InitProfileOrUpload /\ [][NextProfileOrUpload]_vars

----------------------------------------------------------------------------
(* The functions of the core called on their own: one of the data processor on a
   dataset, or trainModel on a feature matrix and a target vector *)

InitCore ==
    \/ InitData
    \/ InitTrain

NextCore ==
    \/ NextData
    \/ NextTrain

SpecCore == InitCore /\ [][NextCore]_vars

----------------------------------------------------------------------------
(* trainModel with the logistic regression on targets that are not only 0 and 1 *)

\* The longest feature matrix with such targets
MaxLabelRows == 4

LabelPool == {[x |-> <<v>>, y |-> l] : v \in {0, 2}, l \in {0, 1, 5}}

LabelInputs == UNION {[1..n -> LabelPool] : n \in 1..MaxLabelRows}

\* The tokens of a classification that select the logistic regression
LogisticTokens == {"logistic", "auto"}

InitLabels ==
    /\ app = NoApp
    /\ earlier = <<>>
    /\ unit = NoUnit
    /\ data = <<>>
    /\ call = "trainModel"
    /\ target = ""
    /\ analysis = <<>>
    /\ problemType = ""
    /\ classBalance = <<>>
    /\ prepared = <<>>
    /\ thrown = ""
    /\ \E rows \in LabelInputs, modelType \in LogisticTokens :
          tm = TrainEntry([i \in 1..Len(rows) |-> rows[i].x],
                          [i \in 1..Len(rows) |-> rows[i].y],
                          "classification", modelType)

NextLabels ==
    \/ TrainSplit
    \/ TrainFitThrowsOnEmpty
    \/ TrainFitLogistic
    \/ TrainPredict
    \/ TrainName
    \/ TrainCatch
    \/ TrainReturn

SpecLabels == InitLabels /\ [][NextLabels]_vars

----------------------------------------------------------------------------
(* The metrics functions applied on their own to aligned label vectors *)

\* The longest label vector enumerated
MaxMetricRows == 3

MetricLabels == {0, 1, 2, 10}

LabelVectorPairs ==
    UNION {[1..n -> MetricLabels] \X [1..n -> MetricLabels] : n \in 0..MaxMetricRows}
    \cup {<<(<<0, 1, 0, 1>>), (<<0, 1, 1, 1>>)>>, <<(<<1, 2, 3>>), (<<1, 2, 4>>)>>}

InitMetrics ==
    /\ app = NoApp
    /\ earlier = <<>>
    /\ \E pair \in LabelVectorPairs :
          unit = [NoUnit EXCEPT !.actual = pair[1], !.predicted = pair[2]]
    /\ data = <<>>
    /\ call = "none"
    /\ target = ""
    /\ analysis = <<>>
    /\ problemType = ""
    /\ classBalance = <<>>
    /\ prepared = <<>>
    /\ thrown = ""
    /\ tm = NoTrain

\* calculateMetrics(actual, predicted, problemType)
CallCalculateMetrics ==
    /\ unit.fn = "none"
    /\ \E problemType_ \in ProblemTypes :
          unit' = [unit EXCEPT !.fn = "calculateMetrics",
                               !.arg = problemType_,
                               !.out = <<CalculateMetrics(unit.actual, unit.predicted,
                                                          problemType_)>>]
    /\ UNCHANGED <<data, call, target, analysis, problemType, classBalance, prepared, thrown,
                   tm, app, earlier>>

\* calculateConfusionMatrix(actual, predicted)
CallCalculateConfusionMatrix ==
    /\ unit.fn = "none"
    /\ unit' = [unit EXCEPT !.fn = "calculateConfusionMatrix",
                            !.out = <<CalculateConfusionMatrix(unit.actual, unit.predicted)>>]
    /\ UNCHANGED <<data, call, target, analysis, problemType, classBalance, prepared, thrown,
                   tm, app, earlier>>

NextMetrics ==
    \/ CallCalculateMetrics
    \/ CallCalculateConfusionMatrix

SpecMetrics == InitMetrics /\ [][NextMetrics]_vars

----------------------------------------------------------------------------
(* The decision tree fitted on its own and asked about its training rows *)

\* The longest training set enumerated row by row
MaxTreeRows == 4

TreePool1 == {[x |-> <<v>>, y |-> l] : v \in {0, 1, 2}, l \in {0, 1}}

TreePool2 == {[x |-> v, y |-> l] : v \in {<<0, 0>>, <<0, 1>>, <<1, 0>>}, l \in {0, 1}}

\* Ten rows with one feature 1..10 and labels that alternate, that are all
\* different, and that change every third row; the rows 1, 2, 3, 4 labelled
\* 0, 0, 1, 1; twelve rows whose labels are all different, which the tree splits
\* off one by one down to depth 10; and four rows labelled 2, 1, 2, 1
LongTrainingSets ==
    {[i \in 1..10 |-> [x |-> <<i>>, y |-> i % 2]],
     [i \in 1..10 |-> [x |-> <<i>>, y |-> i]],
     [i \in 1..10 |-> [x |-> <<i>>, y |-> i \div 3]],
     [i \in 1..4 |-> [x |-> <<i>>, y |-> (i - 1) \div 2]],
     [i \in 1..12 |-> [x |-> <<i>>, y |-> i]],
     [i \in 1..4 |-> [x |-> <<0>>, y |-> 1 + (i % 2)]]}

TrainingSets ==
    UNION {[1..n -> TreePool1] \cup [1..n -> TreePool2] : n \in 0..MaxTreeRows}
    \cup LongTrainingSets

InitTree ==
    /\ app = NoApp
    /\ earlier = <<>>
    /\ \E rows \in TrainingSets :
          unit = [NoUnit EXCEPT !.X = [i \in 1..Len(rows) |-> rows[i].x],
                                !.y = [i \in 1..Len(rows) |-> rows[i].y]]
    /\ data = <<>>
    /\ call = "none"
    /\ target = ""
    /\ analysis = <<>>
    /\ problemType = ""
    /\ classBalance = <<>>
    /\ prepared = <<>>
    /\ thrown = ""
    /\ tm = NoTrain

\* The TypeError of a reduce over no key
ReduceError == "TypeError: Reduce of empty array with no initial value"

\* The function fn of the decision tree has thrown
TreeThrows(fn) ==
    /\ unit' = [unit EXCEPT !.fn = fn]
    /\ thrown' = ReduceError
    /\ UNCHANGED <<data, call, target, analysis, problemType, classBalance, prepared, tm, app,
                   earlier>>

\* The function fn of the decision tree has returned value
TreeReturns(fn, value) ==
    /\ unit' = [unit EXCEPT !.fn = fn, !.out = <<value>>]
    /\ UNCHANGED <<data, call, target, analysis, problemType, classBalance, prepared, thrown,
                   tm, app, earlier>>

\* tree.fit(X, y) followed by tree.predict(X); with no row, buildTree goes
\* straight to getMostCommonValue, which throws
FitAndPredictTrainingRows ==
    /\ unit.fn = "none"
    /\ IF ReduceThrows(unit.y)
       THEN TreeThrows("DecisionTree")
       ELSE TreeReturns("DecisionTree", TreePredict(BuildTree(unit.X, unit.y, 0), unit.X))

\* getMostCommonValue(y)
CallGetMostCommonValue ==
    /\ unit.fn = "none"
    /\ IF ReduceThrows(unit.y)
       THEN TreeThrows("getMostCommonValue")
       ELSE TreeReturns("getMostCommonValue", GetMostCommonValue(unit.y))

\* findBestSplit(X, y), which buildTree calls with two rows or more
CallFindBestSplit ==
    /\ unit.fn = "none"
    /\ Len(unit.X) >= 1
    /\ TreeReturns("findBestSplit", FindBestSplit(unit.X, unit.y))

\* buildTree(X, y, 0)
CallBuildTree ==
    /\ unit.fn = "none"
    /\ IF ReduceThrows(unit.y)
       THEN TreeThrows("buildTree")
       ELSE TreeReturns("buildTree", BuildTree(unit.X, unit.y, 0))

NextTree ==
    \/ FitAndPredictTrainingRows
    \/ CallGetMostCommonValue
    \/ CallFindBestSplit
    \/ CallBuildTree

SpecTree == InitTree /\ [][NextTree]_vars

----------------------------------------------------------------------------
(* Properties of the data processor *)

\* A missing value as the specification defines it: null, undefined or ''
IsMissing(v) == v = Null \/ v = Undefined \/ v = Str("")

CountRows(d, P(_)) == Cardinality({i \in 1..Len(d) : P(d[i])})

\* C1: prepareFeatures keeps a row if and only if none of its feature values and
\* not its target value is missing (null, undefined or ''), so both outputs have
\* exactly as many rows as the dataset has complete rows.
C1_KeepsExactlyCompleteRows ==
    call = "prepareFeatures" =>
        LET fc == FeatureColumnsFor(ColumnNames, target)
            complete(row) == /\ \A i \in 1..Len(fc) : ~IsMissing(row[fc[i]])
                             /\ ~IsMissing(row[target])
        IN  /\ Len(prepared[1].features) = CountRows(data, complete)
            /\ Len(prepared[1].targets) = CountRows(data, complete)

\* The non-missing values of a column that are numbers or parse as numbers
PresentNumbers(d, col) ==
    LET present == SelectSeq(ColumnValues(d, col),
                             LAMBDA v : ~IsMissing(v) /\ ~IsNaN(ToNumber(v)))
    IN  [i \in 1..Len(present) |-> ToNumber(present[i]).n]

\* C5: the mean, min and max of a numeric column are taken over its non-missing
\* values only; a null, undefined or '' cell contributes no value.
C5_StatisticsOverPresentValues ==
    (call = "analyzeData" /\ analysis # <<>>) =>
        \A col \in DOMAIN analysis[1].statistics :
            LET st == analysis[1].statistics[col]
                present == PresentNumbers(data, col)
            IN  /\ Len(present) > 0
                /\ st.mean.den = Len(present)
                /\ st.mean.num = SumSeq(present)
                /\ st.min = SeqMin(present)
                /\ st.max = SeqMax(present)

\* C6: std is the population standard deviation: std^2 * n equals the sum of the
\* squared differences to the mean, and std > 0 when two values differ.
C6_PopulationStd ==
    (call = "analyzeData" /\ analysis # <<>>) =>
        \A col \in DOMAIN analysis[1].statistics :
            LET st == analysis[1].statistics[col]
                values == StatValues(data, col)
                n == Len(values)
                \* sum of (value - mean)^2, times mean.den^2
                squares == SumSeq([i \in 1..n |->
                              (st.mean.den * values[i] - st.mean.num)
                              * (st.mean.den * values[i] - st.mean.num)])
            IN  /\ st.stdSq.num * n * st.mean.den * st.mean.den = squares * st.stdSq.den
                /\ (\E i, j \in 1..n : values[i] # values[j]) => st.stdSq.num > 0

\* How many of the values are below, and at most, m
Below(values, m) == Cardinality({i \in 1..Len(values) : values[i] < m})

AtMost(values, m) == Cardinality({i \in 1..Len(values) : values[i] <= m})

\* C7 (as stated): for an even count n the median is the lower of the two middle
\* elements, the n/2-th smallest value; for an odd count the middle element.
C7_MedianLowerMiddle ==
    (call = "analyzeData" /\ analysis # <<>>) =>
        \A col \in DOMAIN analysis[1].statistics :
            LET m == analysis[1].statistics[col].median
                values == StatValues(data, col)
                k == (Len(values) + 1) \div 2
            IN  Below(values, m) <= k - 1 /\ AtMost(values, m) >= k

\* C7 (amended): the median is the element at index floor(n/2) of the ascending
\* values: for an even count the upper of the two middle elements, the
\* (n/2 + 1)-th smallest; for an odd count the middle element.
C7_MedianUpperMiddle ==
    (call = "analyzeData" /\ analysis # <<>>) =>
        \A col \in DOMAIN analysis[1].statistics :
            LET m == analysis[1].statistics[col].median
                values == StatValues(data, col)
                k == (Len(values) \div 2) + 1
            IN  Below(values, m) <= k - 1 /\ AtMost(values, m) >= k

\* An even count of values whose two middle elements differ has been summarised
C7_Witness ==
    /\ call = "analyzeData"
    /\ analysis # <<>>
    /\ "f" \in DOMAIN analysis[1].statistics
    /\ StatValues(data, "f") = <<7, 5>>
    /\ analysis[1].statistics["f"].median = 7

\* C10: missingValues[c] counts the rows whose value in c is null, undefined or
\* '', it adds up with the non-missing count to the row count, and lies in
\* 0..row count.
C10_MissingCounts ==
    (call = "analyzeData" /\ Len(data) > 0) =>
        /\ analysis # <<>>
        /\ \A i \in 1..Len(ColumnNames) :
              LET c == ColumnNames[i]
                  mv == analysis[1].missingValues[c]
                  missing(row) == IsMissing(row[c])
                  present(row) == ~IsMissing(row[c])
              IN  /\ mv = CountRows(data, missing)
                  /\ mv + CountRows(data, present) = Len(data)
                  /\ 0 <= mv /\ mv <= analysis[1].shape.rows

\* A column with a null, an undefined and an empty-string cell has been counted
C10_Witness ==
    /\ call = "analyzeData"
    /\ Len(data) = 3
    /\ {data[i]["f"] : i \in 1..3} = {Null, Undefined, Str("")}
    /\ analysis # <<>>
    /\ analysis[1].missingValues["f"] = 3

\* How many cells of a column are not missing, and how many of those are numbers
\* or strings that parse as numbers
PresentCount(d, col) == Cardinality({i \in 1..Len(d) : ~IsMissing(d[i][col])})

NumericCount(d, col) ==
    Cardinality({i \in 1..Len(d) :
        /\ ~IsMissing(d[i][col])
        /\ (d[i][col].k = "number" \/ ~IsNaN(ToNumber(d[i][col])))})

\* C11: a column is numeric if and only if strictly more than 80% of its
\* non-missing values are numbers or parse as numbers, and categorical otherwise
\* (so at exactly 80%, and with no non-missing value); every column is in exactly
\* one of numericalColumns and categoricalColumns, matching its dtypes entry.
C11_NumericIffOver80 ==
    (call = "analyzeData" /\ analysis # <<>>) =>
        \A i \in 1..Len(ColumnNames) :
            LET col == ColumnNames[i]
                a == analysis[1]
                over80 == NumericCount(data, col) * 5 > PresentCount(data, col) * 4
                numerical == \E j \in 1..Len(a.numericalColumns) : a.numericalColumns[j] = col
                categorical == \E j \in 1..Len(a.categoricalColumns) : a.categoricalColumns[j] = col
            IN  /\ numerical <=> over80
                /\ categorical <=> ~over80
                /\ PresentCount(data, col) = 0 => categorical
                /\ a.dtypes[col] = (IF numerical THEN "number" ELSE "string")
                /\ Cardinality({j \in 1..Len(a.numericalColumns) : a.numericalColumns[j] = col})
                     + Cardinality({j \in 1..Len(a.categoricalColumns) : a.categoricalColumns[j] = col})
                     = 1

\* A column with exactly 8 numeric values among its 10 non-missing values has been
\* classified categorical
C11_Witness ==
    /\ call = "analyzeData"
    /\ analysis # <<>>
    /\ PresentCount(data, "f") = 10
    /\ NumericCount(data, "f") = 8
    /\ analysis[1].categoricalColumns = <<"f">>
    /\ analysis[1].dtypes["f"] = "string"

\* C12: getClassBalance maps the string form of each distinct target value to
\* the number of rows holding it, its entries are enumerated in the order in
\* which the values first appear in the dataset, and the counts sum to the row
\* count.
C12_FirstAppearanceOrder ==
    call = "getClassBalance" =>
        LET keys == [i \in 1..Len(data) |-> ToString10(data[i][target])]
            firsts == SelectSeq([i \in 1..Len(data) |-> i],
                                LAMBDA i : \A j \in 1..(i - 1) : keys[j] # keys[i])
            entries == classBalance[1]
        IN  /\ Len(entries) = Len(firsts)
            /\ \A e \in 1..Len(firsts) :
                  /\ entries[e].key = keys[firsts[e]]
                  /\ entries[e].count =
                        Cardinality({i \in 1..Len(data) : keys[i] = keys[firsts[e]]})
            /\ SumSeq([e \in 1..Len(entries) |-> entries[e].count]) = Len(data)

\* C13: features and targets have the same length, at most the row count; every
\* feature vector has one entry per requested feature column; the k-th feature
\* vector and the k-th target come from the same dataset row; and the kept rows
\* appear in dataset order.
C13_AlignedSubsequence ==
    call = "prepareFeatures" =>
        LET fc == FeatureColumnsFor(ColumnNames, target)
            features == prepared[1].features
            targets == prepared[1].targets
        IN  /\ Len(features) = Len(targets)
            /\ Len(features) <= Len(data)
            /\ \A k \in 1..Len(features) : Len(features[k]) = Len(fc)
            /\ \E rows \in SUBSET (1..Len(data)) :
                  /\ Cardinality(rows) = Len(features)
                  /\ LET idx == SortedSet(rows)
                     IN  \A k \in 1..Len(idx) :
                            /\ features[k] = [c \in 1..Len(fc) |-> EncodeValue(data[idx[k]][fc[c]])]
                            /\ Len(targets) >= k
                            /\ targets[k] = EncodeValue(data[idx[k]][target])

\* Ten rows of which the fifth has a missing feature have been encoded: the fifth
\* output row is the sixth dataset row
C13_Witness ==
    /\ call = "prepareFeatures"
    /\ target = "t"
    /\ Len(data) = 10
    /\ data[5]["f"] = Null
    /\ Len(prepared[1].features) = 9
    /\ prepared[1].features[5] = <<6>>
    /\ prepared[1].targets[5] = 0
    /\ prepared[1].features[9] = <<10>>

----------------------------------------------------------------------------
(* Properties of problem-type detection *)

AllNumbers(d, col) == \A i \in 1..Len(d) : d[i][col].k = "number"

DistinctValues(d, col) == Cardinality({d[i][col] : i \in 1..Len(d)})

\* C8 (as stated): a numeric target with 21 distinct values in a 1000-row dataset
\* is detected as regression.
C8_Regression21Of1000 ==
    (call = "detectProblemType" /\ Len(data) = 1000 /\ AllNumbers(data, target)
        /\ DistinctValues(data, target) = 21) => problemType = "regression"

\* C8 (amended): a numeric target with 21 distinct values in a 1000-row dataset is
\* detected as classification, 21 being less than 10% of the rows; such a target
\* is regression exactly when the dataset has at most 210 rows.
C8_Classification21Of1000 ==
    (call = "detectProblemType" /\ AllNumbers(data, target)
        /\ DistinctValues(data, target) = 21) =>
        /\ Len(data) = 1000 => problemType = "classification"
        /\ problemType = "regression" <=> Len(data) <= 210

C8_Witness ==
    /\ call = "detectProblemType"
    /\ Len(data) = 1000
    /\ AllNumbers(data, target)
    /\ DistinctValues(data, target) = 21
    /\ problemType = "classification"

\* C9: over the distinct non-missing target values, classification when their
\* count is at most 20 or below 10% of the row count; otherwise regression when
\* more than 80% of the non-missing values are or parse as numbers; otherwise
\* classification.
C9_RulesInOrder ==
    call = "detectProblemType" =>
        LET present == SelectSeq(ColumnValues(data, target), LAMBDA v : ~IsMissing(v))
            distinct == Cardinality({present[i] : i \in 1..Len(present)})
            numeric == Cardinality({i \in 1..Len(present) :
                           present[i].k = "number" \/ ~IsNaN(ToNumber(present[i]))})
        IN  problemType =
                IF distinct <= 20 \/ distinct * 10 < Len(data) THEN "classification"
                ELSE IF numeric * 5 > Len(present) * 4 THEN "regression"
                ELSE "classification"

----------------------------------------------------------------------------
(* Properties of trainModel *)

\* The names of the models a call with these arguments attempts
AttemptedNames(problemType_, modelType) ==
    IF problemType_ = "classification"
    THEN (CASE modelType \in {"logistic", "auto"} -> {"Logistic Regression"}
            [] modelType = "decisiontree" -> {"Decision Tree"}
            [] modelType = "randomforest" -> {"Random Forest Classifier"}
            [] OTHER -> {})
    ELSE (CASE modelType \in {"linear", "auto"} ->
                    {"Linear Regression", "Multivariate Linear Regression"}
            [] modelType = "randomforest" -> {"Random Forest Regression"}
            [] OTHER -> {})

\* C2: when fitting or predicting throws, the error that propagates names the
\* model that was attempted; the name in it is never empty.
C2_ErrorNamesModel ==
    tm.pc = "thrown" =>
        \E name \in AttemptedNames(tm.problemType, tm.modelType) :
            thrown = "Failed to train " \o name \o ": " \o tm.caught

\* C3: X and y are cut at floor(0.8 * n): the training set is the first
\* floor(0.8n) rows in order, the held-out set the remaining rows in order, both
\* cut at the same index, and actualValues is the held-out slice of y.
C3_SplitAtFloor80 ==
    tm.pc \notin {"idle", "start"} =>
        LET n == Len(tm.X)
            k == Len(tm.XTrain)
        IN  /\ 5 * k <= 4 * n /\ 4 * n < 5 * (k + 1)
            /\ tm.splitIndex = k
            /\ Len(tm.yTrain) = k
            /\ tm.XTrain \o tm.XTest = tm.X
            /\ tm.yTrain \o tm.yTest = tm.y
            /\ tm.pc = "returned" =>
                  tm.result[1].actualValues = [i \in 1..(n - k) |-> tm.y[k + i]]

\* A call on six rows has returned with the last two rows held out
C3_Witness ==
    /\ tm.pc = "returned"
    /\ Len(tm.X) = 6
    /\ tm.y = <<0, 1, 0, 1, 0, 1>>
    /\ tm.XTrain = <<<<0>>, <<2>>, <<0>>, <<2>>>>
    /\ tm.XTest = <<<<0>>, <<2>>>>
    /\ tm.result[1].actualValues = <<0, 1>>

\* C4: the problem type and the token select the model, and the model name of a
\* returned record is the name of the model that produced its predictions; the
\* univariate linear regression is used exactly when the training rows have one
\* feature column.
C4_DispatchAndName ==
    tm.pc = "returned" =>
        LET r == tm.result[1]
            kind == tm.model.kind
            classification == tm.problemType = "classification"
            regression == tm.problemType = "regression"
            oneFeature == Len(tm.XTrain[1]) = 1
        IN  /\ (classification /\ tm.modelType \in {"logistic", "auto"}) =>
                  (r.model = "Logistic Regression" /\ kind = "logistic")
            /\ (classification /\ tm.modelType = "decisiontree") =>
                  (r.model = "Decision Tree" /\ kind = "decisiontree")
            /\ (classification /\ tm.modelType = "randomforest") =>
                  (r.model = "Random Forest Classifier" /\ kind = "rfClassifier")
            /\ (regression /\ tm.modelType \in {"linear", "auto"} /\ oneFeature) =>
                  (r.model = "Linear Regression" /\ kind = "simple")
            /\ (regression /\ tm.modelType \in {"linear", "auto"} /\ ~oneFeature) =>
                  (r.model = "Multivariate Linear Regression" /\ kind = "multivariate")
            /\ (regression /\ tm.modelType = "randomforest") =>
                  (r.model = "Random Forest Regression" /\ kind = "rfRegression")
            /\ AttemptedNames(tm.problemType, tm.modelType) = {} =>
                  (r.model = "" /\ kind = "none" /\ r.predictions = <<>>)
            /\ kind = "decisiontree" =>
                  r.predictions = TreePredict(BuildTree(tm.XTrain, tm.yTrain, 0), tm.XTest)
            /\ kind # "none" => Len(r.predictions) = Len(r.actualValues)

\* A regression call with the token auto on rows of two features has returned
C4_Witness ==
    /\ tm.pc = "returned"
    /\ tm.problemType = "regression"
    /\ tm.modelType = "auto"
    /\ Len(tm.XTrain[1]) = 2
    /\ tm.result[1].model = "Multivariate Linear Regression"

----------------------------------------------------------------------------
(* Properties of the App component *)

\* C14: when feature encoding drops every row of the dataset, the training
\* invocation fails with an error before trainModel is called: no model is
\* fitted, no results record is produced and the app does not move to 'results';
\* trainModel is only ever called with at least one row.
C14_NoRowsFailsBeforeTraining ==
    /\ [](app.pc = "awaiting" => (tm.pc # "idle" /\ tm.X # <<>>))
    /\ [][(app.pc = "prepared" /\ Len(data) > 0 /\ prepared[1].features = <<>>) =>
            /\ app'.error = "No valid feature data found after preprocessing"
            /\ app'.pc = "idle"
            /\ tm.pc = "idle" /\ tm' = tm
            /\ app'.results = <<>>
            /\ app'.currentStep = "train"]_vars

\* A training invocation on a dataset whose rows were all dropped has failed
C14_Witness ==
    /\ app.pc = "idle"
    /\ app.currentStep = "train"
    /\ Len(data) > 0
    /\ PrepareFeatures(data, FeatureColumnsFor(analysis[1].columns, target), target).features = <<>>
    /\ app.error = "No valid feature data found after preprocessing"
    /\ app.results = <<>>
    /\ tm.pc = "idle"

\* The running training invocation is about to fail
InvocationFails ==
    \/ app.pc = "prepared" /\ prepared[1].features = <<>>
    \/ app.pc = "awaiting" /\ tm.pc = "thrown"

\* C15: a failed training invocation leaves the stored results unchanged, leaves
\* currentStep at 'train', stores the error message, returns isLoading to false
\* and starts no retry: no handler and no trainModel call is running afterwards
\* (a later invocation can still reach 'results': C15_Witness).
C15_FailureIsTerminal ==
    [][InvocationFails =>
        /\ app'.results = app.results
        /\ app.currentStep = "train" /\ app'.currentStep = "train"
        /\ app'.error # ""
        /\ app'.error \in {"No valid feature data found after preprocessing", thrown}
        /\ app'.isLoading = FALSE
        /\ app'.pc = "idle"
        /\ tm'.pc = "idle"]_vars

\* After a failed invocation, a later one has succeeded and reached 'results'
C15_Witness ==
    /\ app.currentStep = "results"
    /\ app.failures > 0
    /\ app.results # <<>>
    /\ app.error = ""
    /\ ~app.isLoading

----------------------------------------------------------------------------
(* Properties of two trainModel calls *)

\* The first n rows of two sequences agree
AgreeOnFirst(a, b, n) == \A i \in 1..n : a[i] = b[i]

\* floor(0.8 * n), stated by its bounds
Floor80(n) == CHOOSE k \in 0..n : 5 * k <= 4 * n /\ 4 * n < 5 * (k + 1)

\* The feature vectors a fitted model is asked about
ProbeVectors(t) == IF Len(t.X[1]) = 2 THEN {<<0, 1>>, <<1, 0>>, <<0, 0>>} ELSE {<<0>>, <<1>>, <<2>>}

\* What a fitted in-core model predicts for one feature vector
ModelPrediction(model, x) ==
    IF model.kind = "logistic" THEN RoundedProba(model, x) ELSE PredictSingle(x, model.tree)

\* C16: the fitted model does not depend on the held-out rows: two calls with
\* the same problem type and in-core token whose X and y have the same length
\* and agree on the first floor(0.8n) rows fit the same model, which predicts
\* the same for any feature vector, whatever the held-out rows are.
C16_FitIgnoresHeldOut ==
    (earlier # <<>> /\ tm.pc \in {"predict", "name", "return", "returned"}) =>
        LET e == earlier[1]
            n == Len(tm.X)
            k == Floor80(n)
        IN  (/\ e.problemType = tm.problemType /\ e.modelType = tm.modelType
             /\ Len(e.X) = n /\ Len(e.y) = n /\ Len(tm.y) = n
             /\ AgreeOnFirst(e.X, tm.X, k) /\ AgreeOnFirst(e.y, tm.y, k)) =>
                /\ e.pc = "returned"
                /\ tm.model = e.model
                /\ tm.model.kind \in {"logistic", "decisiontree"}
                /\ \A x \in ProbeVectors(tm) :
                      ModelPrediction(tm.model, x) = ModelPrediction(e.model, x)

\* Two calls that agree on the training rows and differ in both held-out rows
\* have fitted the same split node
C16_Witness ==
    /\ earlier # <<>>
    /\ tm.pc = "returned"
    /\ Len(tm.X) = 5
    /\ AgreeOnFirst(earlier[1].X, tm.X, 4)
    /\ earlier[1].XTest # tm.XTest
    /\ earlier[1].yTest # tm.yTest
    /\ tm.model.kind = "decisiontree"
    /\ ~tm.model.tree.leaf
    /\ tm.model = earlier[1].model

----------------------------------------------------------------------------
(* Properties of the metrics functions *)

\* The labels occurring in either vector handed to the metrics functions
LabelsSeen == SeqSet(unit.actual) \cup SeqSet(unit.predicted)

\* The position of label v when the labels seen are put in ascending numeric order
NumericRank(v) == 1 + Cardinality({w \in LabelsSeen : w < v})

\* The rows in which the actual label is a and the predicted label is p
RowsWith(a, p) ==
    {i \in 1..Len(unit.actual) : unit.actual[i] = a /\ unit.predicted[i] = p}

\* C18: the confusion matrix of calculateConfusionMatrix is square over the
\* distinct labels of both vectors taken in ascending numeric order, and its
\* entry [i][j] counts the rows whose actual label is the i-th label and whose
\* predicted label is the j-th label; so the row of label 2 comes before the row
\* of label 10.
C18_LabelsInNumericOrder ==
    unit.fn = "calculateConfusionMatrix" =>
        LET matrix == unit.out[1]
        IN  /\ Len(matrix) = Cardinality(LabelsSeen)
            /\ \A a \in LabelsSeen :
                  /\ Len(matrix[NumericRank(a)]) = Cardinality(LabelsSeen)
                  /\ \A p \in LabelsSeen :
                        matrix[NumericRank(a)][NumericRank(p)] = Cardinality(RowsWith(a, p))

\* The classification metrics calculateMetrics reported for n >= 1 rows
ClassificationReported ==
    /\ unit.fn = "calculateMetrics"
    /\ unit.arg = "classification"
    /\ Len(unit.actual) >= 1

\* The larger of the labels seen
LargerLabel == CHOOSE c \in LabelsSeen : \A o \in LabelsSeen : c >= o

TruePositives == Cardinality(RowsWith(LargerLabel, LargerLabel))

FalsePositives ==
    Cardinality({i \in 1..Len(unit.actual) :
        unit.predicted[i] = LargerLabel /\ unit.actual[i] # LargerLabel})

FalseNegatives ==
    Cardinality({i \in 1..Len(unit.actual) :
        unit.actual[i] = LargerLabel /\ unit.predicted[i] # LargerLabel})

Matches == Cardinality({i \in 1..Len(unit.actual) : unit.predicted[i] = unit.actual[i]})

\* The reported value v is exactly num / den, and 0 when den is 0
ExactlyRatio(v, num, den) ==
    /\ v.kind = "number"
    /\ IF den = 0 THEN v.e4 = 0 ELSE v.e4 * den = 10000 * num

\* The reported value v is num / den rounded to four decimals (a tie going up),
\* and 0 when den is 0
RoundedRatio(v, num, den) ==
    /\ v.kind = "number"
    /\ IF den = 0 THEN v.e4 = 0
       ELSE /\ 2 * Abs(v.e4 * den - 10000 * num) <= den
            /\ (2 * Abs(v.e4 * den - 10000 * num) = den => v.e4 * den > 10000 * num)

\* C19 as stated: accuracy is exactly matches / n; with exactly two distinct
\* labels over both vectors the larger is the positive class and precision is
\* exactly TP / (TP + FP), recall exactly TP / (TP + FN), F1 their harmonic mean,
\* each 0 when its denominator is 0; with any other number of labels the three
\* are 0.
C19_ExactRatios ==
    ClassificationReported =>
        LET m == unit.out[1].classification[1]
        IN  /\ ExactlyRatio(m.accuracy, Matches, Len(unit.actual))
            /\ IF Cardinality(LabelsSeen) = 2
               THEN /\ ExactlyRatio(m.precision, TruePositives, TruePositives + FalsePositives)
                    /\ ExactlyRatio(m.recall, TruePositives, TruePositives + FalseNegatives)
                    /\ ExactlyRatio(m.f1, 2 * TruePositives,
                                    2 * TruePositives + FalsePositives + FalseNegatives)
               ELSE m.precision = Fixed(0) /\ m.recall = Fixed(0) /\ m.f1 = Fixed(0)

\* C19 amended: the same ratios, each reported rounded to four decimal places.
C19_RoundedRatios ==
    ClassificationReported =>
        LET m == unit.out[1].classification[1]
        IN  /\ RoundedRatio(m.accuracy, Matches, Len(unit.actual))
            /\ IF Cardinality(LabelsSeen) = 2
               THEN /\ RoundedRatio(m.precision, TruePositives, TruePositives + FalsePositives)
                    /\ RoundedRatio(m.recall, TruePositives, TruePositives + FalseNegatives)
                    /\ RoundedRatio(m.f1, 2 * TruePositives,
                                    2 * TruePositives + FalsePositives + FalseNegatives)
               ELSE m.precision = Fixed(0) /\ m.recall = Fixed(0) /\ m.f1 = Fixed(0)

\* Three rows with labels 0 and 1, one true positive, one false positive and one
\* false negative: accuracy 1/3 is reported as 0.3333, the other three as 0.5
C19_Witness ==
    /\ ClassificationReported
    /\ unit.actual = <<1, 0, 1>>
    /\ unit.predicted = <<1, 1, 0>>
    /\ unit.out[1].classification[1] =
          [accuracy |-> Fixed(3333), precision |-> Fixed(5000),
           recall |-> Fixed(5000), f1 |-> Fixed(5000)]

----------------------------------------------------------------------------
(* Properties of the decision tree *)

\* No two training rows have the same feature vector and different labels
ConsistentLabels ==
    \A i, j \in 1..Len(unit.X) : unit.X[i] = unit.X[j] => unit.y[i] = unit.y[j]

\* C20: a decision tree fitted on at most 10 rows whose labels are consistent
\* predicts, for every training row, that row's own label.
C20_TreeFitsConsistentRows ==
    (unit.fn = "DecisionTree" /\ Len(unit.X) <= 10 /\ ConsistentLabels) =>
        \A i \in 1..Len(unit.X) : unit.out # <<>> /\ unit.out[1][i] = unit.y[i]

\* The four rows 1, 2, 3, 4 labelled 0, 0, 1, 1 are predicted 0, 0, 1, 1
C20_Witness ==
    /\ unit.fn = "DecisionTree"
    /\ unit.X = <<(<<1>>), (<<2>>), (<<3>>), (<<4>>)>>
    /\ unit.y = <<0, 0, 1, 1>>
    /\ unit.out[1] = <<0, 0, 1, 1>>

----------------------------------------------------------------------------
(* Properties of the App component: the target column and the upload *)

\* The columns of the current dataset, none before an upload has completed
CurrentColumns == IF analysis = <<>> THEN {} ELSE SeqSet(analysis[1].columns)

\* C21: selectedTarget is always empty or a column of the current dataset; every
\* invocation of handleTargetSelect, which calls detectProblemType and
\* getClassBalance, is for a column of analysis.columns; and while the name
\* typed is not a column, nothing is handed to onTargetSelect.
C21_TargetIsAColumn ==
    /\ [](target = "" \/ target \in CurrentColumns)
    /\ [][app'.timerId # app.timerId => target' \in CurrentColumns]_vars
    /\ [][(app.currentStep = "analyze" /\ app.showCustomInput
              /\ app.customTarget \notin CurrentColumns) =>
            /\ target' \in {target, ""}
            /\ app'.timerId = app.timerId]_vars

\* With the target t selected, a name that is no column is in the custom input
C21_Witness ==
    /\ app.currentStep = "analyze"
    /\ target = "t"
    /\ problemType = DetectProblemType(data, "t")
    /\ app.showCustomInput
    /\ app.customTarget = "x"

\* The upload that is about to complete parsed to zero rows
ParsedToNoRow ==
    /\ app.pc = "parsed"
    /\ app.parsed[1].rejected = ""
    /\ Len(app.parsed[1].data) = 0

\* C22: analyzeData on a dataset with zero rows fails with an error and yields no
\* analysis record; an analysis record is only ever held together with a
\* non-empty dataset; and an upload that parses to zero rows ends with the error
\* message stored, currentStep still 'upload', data still empty and analysis
\* still null.
C22_EmptyDatasetNeverProfiled ==
    /\ []((call = "analyzeData" /\ Len(data) = 0) =>
             (thrown = "No data to analyze" /\ analysis = <<>>))
    /\ [](analysis # <<>> => Len(data) > 0)
    /\ [][ParsedToNoRow =>
            /\ app'.error = "No data found in the uploaded file"
            /\ app'.currentStep = "upload"
            /\ app'.pc = "idle"
            /\ ~app'.isLoading
            /\ data' = <<>>
            /\ analysis' = <<>>]_vars

\* An upload that parsed to zero rows has ended
C22_Witness ==
    /\ app.pc = "idle"
    /\ app.currentStep = "upload"
    /\ app.error = "No data found in the uploaded file"
    /\ ~app.isLoading
    /\ data = <<>>
    /\ analysis = <<>>

----------------------------------------------------------------------------
(* Properties of the core as a whole *)

----------------------------------------------------------------------------
(* Properties of the logistic regression inside trainModel *)

\* C24: for a classification with the token 'logistic' or 'auto', every
\* prediction of the results record is 0 or 1, whatever labels occur in y.
C24_LogisticPredictsZeroOrOne ==
    (tm.pc = "returned" /\ tm.problemType = "classification"
        /\ tm.modelType \in {"logistic", "auto"}) =>
        /\ tm.result[1].model = "Logistic Regression"
        /\ \A i \in 1..Len(tm.result[1].predictions) : tm.result[1].predictions[i] \in {0, 1}

\* trainModel has returned predictions for targets that are all 5
C24_Witness ==
    /\ tm.pc = "returned"
    /\ tm.modelType = "auto"
    /\ tm.y = <<5, 5, 5, 5>>
    /\ Len(tm.result[1].predictions) = 1
    /\ tm.result[1].actualValues = <<5>>
    /\ tm.result[1].predictions[1] \in {0, 1}

----------------------------------------------------------------------------
(* Properties of the regression metrics *)

\* The regression metrics calculateMetrics reported for n >= 1 rows
RegressionReported ==
    /\ unit.fn = "calculateMetrics"
    /\ unit.arg = "regression"
    /\ Len(unit.actual) >= 1

SquaredErrors ==
    SumSeq([i \in 1..Len(unit.actual) |->
               (unit.actual[i] - unit.predicted[i]) * (unit.actual[i] - unit.predicted[i])])

AbsoluteErrors ==
    SumSeq([i \in 1..Len(unit.actual) |-> Abs(unit.actual[i] - unit.predicted[i])])

\* x * x * n <= q * 10^8 for 0 <= x, computed on the two halves x = h * 10^4 + l
SquareAtMost(x, n, q) ==
    LET h == x \div 10000
        l == x % 10000
        low == l * l * n
        high == h * h * n * 10000 + 2 * h * l * n + (low \div 10000)
    IN  high < q * 10000 \/ (high = q * 10000 /\ low % 10000 = 0)

\* The reported value v is the square root of num / den rounded to four
\* decimals: v.e4 - 1/2 <= 10^4 * sqrt(num / den) < v.e4 + 1/2
RoundedRoot(v, num, den) ==
    /\ v.kind = "number"
    /\ v.e4 >= 0
    /\ v.e4 = 0 \/ SquareAtMost(2 * v.e4 - 1, den, 4 * num)
    /\ ~SquareAtMost(2 * v.e4 + 1, den, 4 * num)

\* The reported value v rounded to four decimals once more
RoundedAgain(v) ==
    Fixed((v.e4 \div 10000) * 10000 + ToFixed4(Frac(v.e4 % 10000, 10000)).e4)

\* C25: for regression with n >= 1 aligned values, the reported MSE is the mean
\* of the squared errors, the MAE the mean of the absolute errors and the RMSE
\* the square root of the MSE, each rounded to 4 decimal places, and rounding a
\* reported value to 4 decimal places again leaves it unchanged.
C25_RegressionMetricsRounded ==
    RegressionReported =>
        LET m == unit.out[1].regression[1]
            n == Len(unit.actual)
        IN  /\ RoundedRatio(m.mse, SquaredErrors, n)
            /\ RoundedRatio(m.mae, AbsoluteErrors, n)
            /\ RoundedRoot(m.rmse, SquaredErrors, n)
            /\ RoundedAgain(m.mse) = m.mse
            /\ RoundedAgain(m.mae) = m.mae
            /\ RoundedAgain(m.rmse) = m.rmse

\* For actual [1,2,3] and predicted [1,2,4] the MSE and the MAE are both 0.3333
\* and the RMSE is 0.5774
C25_Witness ==
    /\ RegressionReported
    /\ unit.actual = <<1, 2, 3>>
    /\ unit.predicted = <<1, 2, 4>>
    /\ unit.out[1].regression[1].mse = Fixed(3333)
    /\ unit.out[1].regression[1].mae = Fixed(3333)
    /\ unit.out[1].regression[1].rmse = Fixed(5774)

----------------------------------------------------------------------------
(* Properties of the parts of the decision tree *)

\* The first position at which label v occurs in y
FirstOccurrence(y, v) == CHOOSE i \in 1..Len(y) : y[i] = v /\ \A j \in 1..(i - 1) : y[j] # v

\* C26: getMostCommonValue returns a label whose count in the subset is maximal,
\* and among the labels that tie for the maximal count the one that occurs first
\* in the subset.
C26_TieGoesToFirstOccurrence ==
    (unit.fn = "getMostCommonValue" /\ Len(unit.y) >= 1) =>
        LET value == unit.out[1]
            count(v) == Cardinality({i \in 1..Len(unit.y) : unit.y[i] = v})
        IN  /\ value \in SeqSet(unit.y)
            /\ \A v \in SeqSet(unit.y) :
                  /\ count(v) <= count(value)
                  /\ count(v) = count(value) =>
                        FirstOccurrence(unit.y, value) <= FirstOccurrence(unit.y, v)

\* The values feature f (0-based) takes in the subset
FeatureValues(f) == {unit.X[r][f + 1] : r \in 1..Len(unit.X)}

\* A feature and two values of it
ValuePairs ==
    UNION {{[feature |-> f, a |-> a, b |-> b] : a \in FeatureValues(f), b \in FeatureValues(f)}
           : f \in 0..(Len(unit.X[1]) - 1)}

\* The candidates of findBestSplit: a feature and two adjacent distinct values
\* a < b of it, the threshold being their midpoint
Candidates ==
    {c \in ValuePairs :
        c.a < c.b /\ \A v \in FeatureValues(c.feature) : ~(c.a < v /\ v < c.b)}

\* The rows at most the midpoint of the candidate, and the rows above it
LeftRows(c) == {i \in 1..Len(unit.X) : 2 * unit.X[i][c.feature + 1] <= c.a + c.b}

RightRows(c) == {i \in 1..Len(unit.X) : 2 * unit.X[i][c.feature + 1] > c.a + c.b}

\* The sum over the labels of the squared count of the label among the rows S
SquaredCounts(S) == Cardinality({p \in S \X S : unit.y[p[1]] = unit.y[p[2]]})

\* The weighted Gini of a candidate is 1 - Purity / n, with Purity the fraction
\* SquaredCounts(L) / |L| + SquaredCounts(R) / |R|
PurityNum(c) ==
    SquaredCounts(LeftRows(c)) * Cardinality(RightRows(c))
        + SquaredCounts(RightRows(c)) * Cardinality(LeftRows(c))

PurityDen(c) == Cardinality(LeftRows(c)) * Cardinality(RightRows(c))

\* Candidate c has a strictly lower weighted Gini than candidate d
LowerGini(c, d) == PurityNum(c) * PurityDen(d) > PurityNum(d) * PurityDen(c)

\* Candidate c is visited before candidate d
VisitedBefore(c, d) == c.feature < d.feature \/ (c.feature = d.feature /\ c.a < d.a)

RECURSIVE TreeAsBuilt(_, _, _)
TreeAsBuilt(node, rows, depth) ==
    LET labels == {unit.y[i] : i \in rows}
        count(v) == Cardinality({i \in rows : unit.y[i] = v})
        left == {i \in rows :
                    unit.X[i][node.feature + 1] * node.threshold.den <= node.threshold.num}
    IN  IF node.leaf
        THEN /\ node.value \in labels
             /\ \A v \in labels : count(v) <= count(node.value)
        ELSE /\ depth < 10
             /\ Cardinality(rows) >= 2
             /\ Cardinality(labels) # 1
             /\ Cardinality(left) < Cardinality(rows)
             /\ Cardinality(rows \ left) < Cardinality(rows)
             /\ TreeAsBuilt(node.left, left, depth + 1)
             /\ TreeAsBuilt(node.right, rows \ left, depth + 1)

\* The depth of the deepest node, the root being at depth 0
RECURSIVE TreeDepth(_)
TreeDepth(node) ==
    IF node.leaf THEN 0
    ELSE 1 + (IF TreeDepth(node.left) >= TreeDepth(node.right)
              THEN TreeDepth(node.left) ELSE TreeDepth(node.right))

\* C28 as stated: buildTree returns a tree, for every subset; the tree has no
\* split node at depth 10 or deeper; a node is a leaf holding a most frequent
\* label of its subset whenever its depth is at least 10, its subset has fewer
\* than 2 rows or a single distinct label; each subtree is built from strictly
\* fewer rows than its parent; and every leaf label and every prediction is a
\* label that occurs in the training targets.
C28_TreeBoundedAndLabelled ==
    /\ unit.fn = "buildTree" =>
          /\ thrown = ""
          /\ unit.out # <<>>
          /\ TreeAsBuilt(unit.out[1], 1..Len(unit.X), 0)
          /\ TreeDepth(unit.out[1]) <= 10
    /\ (unit.fn = "DecisionTree" /\ unit.out # <<>>) =>
          \A i \in 1..Len(unit.out[1]) : unit.out[1][i] \in SeqSet(unit.y)

\* What does hold of buildTree: the same for every subset of at least one row,
\* while on a subset of no row it returns nothing and throws.
TreeBoundedAndLabelledNonEmpty ==
    /\ (unit.fn = "buildTree" /\ Len(unit.X) >= 1) =>
          /\ thrown = ""
          /\ unit.out # <<>>
          /\ TreeAsBuilt(unit.out[1], 1..Len(unit.X), 0)
          /\ TreeDepth(unit.out[1]) <= 10
    /\ (unit.fn = "buildTree" /\ Len(unit.X) = 0) =>
          /\ thrown # ""
          /\ unit.out = <<>>
    /\ (unit.fn = "DecisionTree" /\ unit.out # <<>>) =>
          \A i \in 1..Len(unit.out[1]) : unit.out[1][i] \in SeqSet(unit.y)

\* Twelve rows with twelve labels: the tree is cut off at depth 10, where two
\* rows are left in one leaf
C28_Witness ==
    /\ unit.fn = "buildTree"
    /\ Len(unit.X) = 12
    /\ Cardinality(SeqSet(unit.y)) = 12
    /\ TreeDepth(unit.out[1]) = 10

\* The stored state that each step of the App shows
StepInvariant ==
    /\ app.currentStep \in {"analyze", "train"} => (analysis # <<>> /\ Len(data) > 0)
    /\ app.currentStep = "train" => (target # "" /\ problemType # "")
    /\ app.currentStep = "results" =>
          /\ app.results # <<>>
          /\ analysis # <<>>
          /\ Len(app.results[1].predictions) = Len(app.results[1].actualValues)
    /\ app.currentStep = "upload" =>
          (data = <<>> /\ analysis = <<>> /\ target = "" /\ app.results = <<>>)

\* C29: in every reachable state of the App, whatever the order of uploads,
\* target selections, timer firings, training invocations, completions of a
\* pending upload or training call and Start Over: 'analyze' and 'train' have an
\* analysis and a non-empty dataset; 'train' has a selected target and a problem
\* type; 'results' has results, an analysis and as many predictions as actual
\* values; and a step to 'upload' (Start Over) leaves the dataset empty and the
\* analysis, the selected target and the results cleared, which the step
\* 'upload' keeps until an upload completes and moves to 'analyze'.
C29_StepsHaveTheirState ==
    /\ []StepInvariant
    /\ [][(app.currentStep # "upload" /\ app'.currentStep = "upload") =>
            (data' = <<>> /\ analysis' = <<>> /\ target' = "" /\ app'.results = <<>>
             /\ ~app'.timer)]_vars
    /\ [][(app.currentStep = "upload" /\ app'.currentStep # "upload") =>
            (app.pc = "parsed" /\ app'.currentStep = "analyze" /\ Len(data') > 0)]_vars

\* Start Over was pressed after a target had been selected (a timer was set, and
\* only Start Over leads back to 'upload'), and a new upload is pending
C29_Witness ==
    /\ app.currentStep = "upload"
    /\ app.timerId = 1
    /\ ~app.timer
    /\ app.pc = "parsed"
    /\ app.parsed[1].data # <<>>
    /\ data = <<>> /\ analysis = <<>> /\ target = "" /\ app.results = <<>>

\* The order of the steps
StepOrder == {<<"upload", "analyze">>, <<"analyze", "train">>, <<"train", "results">>}

\* C30: a timer set by a target selection at 'analyze' leads to 'train' unless
\* Start Over clears it or another selection replaces it; a selection at
\* 'analyze' leaves a new timer pending in place of the one before; a timer is
\* pending only at 'analyze' with a target selected, so that after Start Over
\* none is and 'train' is never entered without a selected target; a pending
\* timer goes away only by firing (to 'train') or by Start Over (to 'upload');
\* and the step changes only along upload, analyze, train, results or back to
\* 'upload'.
C30_AutoAdvance ==
    /\ \A e \in TimerIds :
          (app.timer /\ app.timerId = e) ~>
              \/ app.currentStep = "train"
              \/ app.currentStep = "upload" /\ ~app.timer
              \/ app.timer /\ app.timerId # e
    /\ [](app.timer => (app.currentStep = "analyze" /\ target # "" /\ analysis # <<>>))
    /\ [](app.currentStep = "train" => target # "")
    /\ [][(app.currentStep = "analyze" /\ app'.currentStep = "analyze"
           /\ <<target, problemType, classBalance>>' # <<target, problemType, classBalance>>) =>
            (app'.timer /\ app'.timerId # app.timerId)]_vars
    /\ [][app'.timerId # app.timerId =>
            (app'.timer /\ app'.currentStep = "analyze" /\ target' # "")]_vars
    /\ [][(app.timer /\ ~app'.timer) =>
            \/ app'.currentStep = "train" /\ target' = target
            \/ app'.currentStep = "upload" /\ target' = ""]_vars
    /\ [][(app.currentStep # "upload" /\ app'.currentStep = "upload") =>
            (~app'.timer /\ target' = "")]_vars
    /\ [][app'.currentStep # app.currentStep =>
            \/ <<app.currentStep, app'.currentStep>> \in StepOrder
            \/ app'.currentStep = "upload"]_vars

\* A second timer, set by another selection or after Start Over and a new
\* upload, has fired and moved the App to 'train'
C30_Witness ==
    /\ app.currentStep = "train"
    /\ app.timerId = 0
    /\ ~app.timer
    /\ target # ""
    /\ app.results = <<>>

====
